---- MODULE Spec2Model ----
(***************************************************************************)
(* Model of the NRI validation layer, Source/Validation/DeviceVal.cpp:     *)
(* the resource proxies (buffer, texture, acceleration structure), the     *)
(* Memory proxies with their sets of bound resources, and the DeviceVal    *)
(* entry points that create, bind, allocate-and-bind, free and destroy     *)
(* them.  The backend (m_CoreAPI, m_HelperAPI, m_RayTracingAPI, ...) is     *)
(* external: its result codes and its replies are nondeterministic.        *)
(*                                                                         *)
(* The three Bind*Memory handlers loop over the caller's array.  The       *)
(* client thread's position inside a handler is the variable pc: the call  *)
(* (argument check, StackAlloc), one step per loop iteration, and the      *)
(* backend call with the recording loop that follows it.  While pc is not  *)
(* "idle" no other entry point is enabled (the API contract of the layer   *)
(* is single-threaded per object), so a handler always runs to its return. *)
(* Entry i of the caller's array is drawn when iteration i reads it.  A    *)
(* handler that returns leaves the thread at "returned", holding the       *)
(* result (the variable call); the client takes it and is "idle" again.    *)
(***************************************************************************)
EXTENDS Integers, Naturals, Sequences, FiniteSets, TLC

(* ------------------------------ bounds -------------------------------- *)

\* uint64_t arithmetic (offsets, sizes, rangeMax) is modelled modulo 2^WordBits.
WordBits == 3

\* Largest memoryBindingDescNum a client passes to a Bind*Memory call.
MaxBatch == 2

\* Largest bufferNum / textureNum of a ResourceGroupDesc.
MaxGroup == 1

\* Largest number the backend returns from CalculateAllocationNumber.
MaxAllocations == 1

Wrap == 2 ^ WordBits
UMax == Wrap - 1

(* ------------------------------ universe ------------------------------ *)

NULL == "nullptr"

Buffers == {"b1"}
Textures == {"t1"}
AccelerationStructures == {"a1"}
Resources == Buffers \cup Textures \cup AccelerationStructures

\* The MemoryVal proxies a run can hold at a time, in the order the allocator
\* hands them out.
MemoryOrder == << "m1", "m2" >>
Memories == { MemoryOrder[i] : i \in DOMAIN MemoryOrder }

\* MemoryLocation: the locations a backend registers, and the sentinel that
\* the wrapper CreateMemory calls store for imported memory.
DEVICE == "DEVICE"
MAX_NUM == "MAX_NUM"
KnownLocations == {DEVICE}
MemoryLocations == KnownLocations \cup {MAX_NUM}

MemoryTypes == {"type0"}
NoLocation == "unregistered"

\* Result codes; PENDING while the handler has not returned; CRASH when it
\* never returns (the process faulted inside it).
SUCCESS == "SUCCESS"
FAILURE == "FAILURE"
INVALID_ARGUMENT == "INVALID_ARGUMENT"
PENDING == "PENDING"
CRASH == "CRASH"
\* What a handler declared void "returns".
VOID == "VOID"

\* Results the backend can return from a call.
BackendResults == {SUCCESS, FAILURE}

\* MemoryDesc replies of the backend: size, alignment, mustBeDedicated.
MemoryDescs ==
  { [size |-> 2, alignment |-> 1, mustBeDedicated |-> FALSE],
    [size |-> 1, alignment |-> 2, mustBeDedicated |-> FALSE],
    [size |-> 1, alignment |-> 1, mustBeDedicated |-> TRUE],
    [size |-> 1, alignment |-> 0, mustBeDedicated |-> FALSE] }

\* MemoryDesc memoryDesc = {} (value-initialised, wrapper acceleration structures).
ZeroMemoryDesc == [size |-> 0, alignment |-> 0, mustBeDedicated |-> FALSE]

\* Offsets a client passes in a binding entry.
Offsets == {0, 1, UMax}

\* Sizes a client passes to AllocateMemory / CreateMemory.
MemorySizes == {0, 2}

(* ------------------------------- state -------------------------------- *)

VARIABLES
  live,           \* live[r]: the proxy of resource r exists
  bound,          \* bound[r]: m_IsBoundToMemory of the proxy
  memoryDesc,     \* memoryDesc[a]: m_MemoryDesc of acceleration structure a
  memLive,        \* memLive[m]: the MemoryVal proxy exists
  memSize,        \* memSize[m]: MemoryVal size (0 = unknown)
  memLocation,    \* memLocation[m]: MemoryVal memory location
  boundSet,       \* boundSet[m]: resources recorded as bound to m
  memoryTypeMap,  \* m_MemoryTypeMap
  pc,             \* position of the client thread
  impl,           \* entries of the caller's array validated so far (res, mem)
  call,           \* the handler running or last finished: op, result, ...
  pipelineLayouts,\* pipelineLayouts[l]: the PipelineLayoutVal proxy's recorded desc
  request,        \* the descriptor the handler last finished was called with
  handle,         \* what the handler wrote to the caller's output handle(s)
  reports,        \* diagnostic reports (REPORT_ERROR) the handler has issued
  deviceVal,      \* the DeviceVal object: not allocated, created, destroyed
  capabilities,   \* m_Is*Supported flags of the DeviceVal
  commandQueues,  \* m_CommandQueues[type]: the cached CommandQueueVal, or 0
  queueVals,      \* per queue type: CommandQueueVal proxies allocated, destroyed
  lock,           \* holder of m_Lock
  cbpc,           \* position of the backend callback thread
  alloc,          \* locals of the AllocateMemory call in flight
  access          \* the last access to m_MemoryTypeMap or to one of its entries

vars == << live, bound, memoryDesc, memLive, memSize, memLocation, boundSet,
           memoryTypeMap, pc, impl, call, pipelineLayouts, request,
           handle, reports, deviceVal, capabilities, commandQueues, queueVals,
           lock, cbpc, alloc, access >>

resourceVars == << live, bound, memoryDesc >>
memoryVars == << memLive, memSize, memLocation, boundSet >>
validationVars == << pipelineLayouts, request >>
deviceVars == << deviceVal, capabilities, commandQueues, queueVals >>
lockVars == << lock, cbpc, alloc, access >>

\* The PipelineLayoutVal proxies a run can hold at a time.
PipelineLayouts == {"l1"}

\* No proxy in the slot; no descriptor kept.
NoLayout == [live |-> FALSE, shaderStages |-> 0]
NoRequest == "no_request"

\* The output handle(s) of a call hold the proxies the handler stored in them:
\* none while the handler has not written them.
Unwritten == {}

\* The capability tables DeviceVal::Create queries, the mandatory ones in the
\* order of the queries.
MandatoryTables == << "CoreInterface", "HelperInterface", "StreamerInterface",
                      "ResourceAllocatorInterface" >>
OptionalTables == { "LowLatency", "MeshShader", "RayTracing", "SwapChain",
                    "WrapperD3D11", "WrapperD3D12", "WrapperVK" }

\* CommandQueueType values below CommandQueueType::MAX_NUM.
CommandQueueTypes == {"GRAPHICS", "COMPUTE"}

\* No CommandQueueVal proxy was allocated or destroyed.
NoQueueVals == [allocated |-> 0, destroyed |-> 0]

\* No AllocateMemory call is between its argument checks and its return.
NoAlloc == [size |-> 0, type |-> "none", it |-> "unset", stale |-> FALSE]

\* m_MemoryTypeMap has not been accessed.
NoAccess == [by |-> "none", op |-> "none", locked |-> TRUE, stale |-> FALSE]

\* op: the handler; result: its return code; reason: the check that failed;
\* forwarded: the handler called its backend entry point; named: the resources
\* named in the request it forwarded (for FreeMemory, the memory it was given).
Returned(op, result, reason, forwarded, named) ==
  [op |-> op, result |-> result, reason |-> reason,
   forwarded |-> forwarded, named |-> named]

Min(a, b) == IF a < b THEN a ELSE b

\* The proxies, the client thread and the lock of a device, right after the
\* DeviceVal constructor.
ConstructedInit ==
  /\ live = [r \in Resources |-> FALSE]
  /\ bound = [r \in Resources |-> FALSE]
  /\ memoryDesc = [a \in AccelerationStructures |-> ZeroMemoryDesc]
  /\ memLive = [m \in Memories |-> FALSE]
  /\ memSize = [m \in Memories |-> 0]
  /\ memLocation = [m \in Memories |-> MAX_NUM]
  /\ boundSet = [m \in Memories |-> {}]
  /\ memoryTypeMap = [t \in MemoryTypes |-> NoLocation]
  /\ pc = "idle"
  /\ impl = << >>
  /\ call = Returned("none", SUCCESS, "ok", FALSE, {})
  /\ pipelineLayouts = [l \in PipelineLayouts |-> NoLayout]
  /\ request = NoRequest
  /\ handle = Unwritten
  /\ reports = 0
  /\ commandQueues = [t \in CommandQueueTypes |-> 0]
  /\ queueVals = [t \in CommandQueueTypes |-> NoQueueVals]
  /\ lock = "free"
  /\ cbpc = "idle"
  /\ alloc = NoAlloc
  /\ access = NoAccess

\* A device that CreateDeviceValidation returned, on a backend that fills
\* every capability table.
Init ==
  /\ ConstructedInit
  /\ deviceVal = "created"
  /\ capabilities = [t \in OptionalTables |-> TRUE]


(* ------------------------- helpers of the model ----------------------- *)

BoundedSeq(S, n) == UNION { [1..k -> S] : k \in 0..n }

Range(f) == { f[i] : i \in DOMAIN f }

LiveOf(kind) == { r \in kind : live[r] }
FreeOf(kind) == { r \in kind : ~live[r] }
LiveMemories == { m \in Memories : memLive[m] }
FreeMemories == { m \in Memories : ~memLive[m] }

\* The n proxies the allocator hands out next.
NewMemories(n) ==
  { MemoryOrder[i] : i \in { j \in DOMAIN MemoryOrder :
       /\ ~memLive[MemoryOrder[j]]
       /\ Cardinality({ k \in 1..j : ~memLive[MemoryOrder[k]] }) <= n } }

\* A handler returns: its locals are gone, the client holds the result.
\* out is what it stored in the caller's output handle and n the number of
\* diagnostic reports it issued.
FinishOut(op, result, reason, forwarded, named, out, n) ==
  /\ pc' = "returned"
  /\ impl' = << >>
  /\ call' = Returned(op, result, reason, forwarded, named)
  /\ handle' = out
  /\ reports' = n
  /\ UNCHANGED << validationVars, deviceVars, lockVars >>

\* RETURN_ON_FAILURE(this, condition, result, message): when the condition is
\* false, one REPORT_ERROR and the return.  A handler that returns from
\* anywhere else has reported nothing.
ReportsOf(reason) == IF reason = "ok" THEN 0 ELSE 1

\* A handler that returns without a report, whatever it found.
Finish_Silent(op, result, reason, forwarded, named) ==
  FinishOut(op, result, reason, forwarded, named, Unwritten, 0)

\* A handler returns without having written an output handle.
Finish(op, result, reason, forwarded, named) ==
  FinishOut(op, result, reason, forwarded, named, Unwritten, ReportsOf(reason))

\* if (result == Result::SUCCESS) handle = Allocate<...>(...): the handler
\* returns the backend's result and has stored proxy on SUCCESS only.
FinishCreate(op, result, named, proxy) ==
  FinishOut(op, result, "ok", TRUE, named,
            IF result = SUCCESS THEN proxy ELSE Unwritten, 0)

\* The same for a handler whose descriptor desc the properties look at.
FinishRequestOut(op, result, reason, forwarded, desc, out, n) ==
  /\ pc' = "returned"
  /\ impl' = << >>
  /\ call' = Returned(op, result, reason, forwarded, {})
  /\ request' = desc
  /\ handle' = out
  /\ reports' = n
  /\ UNCHANGED << deviceVars, lockVars >>

\* The same for a handler of the device itself, which changes deviceVars.
FinishDevice(op, result, reason, forwarded, desc, out) ==
  /\ pc' = "returned"
  /\ impl' = << >>
  /\ call' = Returned(op, result, reason, forwarded, {})
  /\ request' = desc
  /\ handle' = out
  /\ reports' = ReportsOf(reason)
  /\ UNCHANGED lockVars

FinishRequest(op, result, reason, forwarded, desc) ==
  FinishRequestOut(op, result, reason, forwarded, desc, Unwritten, ReportsOf(reason))

FinishRequestCreate(op, result, desc, proxy) ==
  FinishRequestOut(op, result, "ok", TRUE, desc,
                   IF result = SUCCESS THEN proxy ELSE Unwritten, 0)

(* --------------------------- proxy objects ---------------------------- *)

\* Allocate<BufferVal / TextureVal / AccelerationStructureVal>(..., isBoundToMemory):
\* the proxy starts with the flag its creator passes and in no bound-set.
AllocateResourceVal(r, isBoundToMemory) ==
  /\ live' = [live EXCEPT ![r] = TRUE]
  /\ bound' = [bound EXCEPT ![r] = isBoundToMemory]

\* Destroy(allocator, proxy): the proxy's destructor takes the resource out of
\* the bound-set of the memory it was bound to.
DestroyResourceVal(r) ==
  /\ live' = [live EXCEPT ![r] = FALSE]
  /\ bound' = [bound EXCEPT ![r] = FALSE]
  /\ boundSet' = [m \in Memories |-> boundSet[m] \ {r}]

\* Allocate<MemoryVal>(..., memoryImpl, size, memoryLocation) for every slot in S.
AllocateMemoryVal(S, size, location) ==
  /\ memLive' = [m \in Memories |-> memLive[m] \/ m \in S]
  /\ memSize' = [m \in Memories |-> IF m \in S THEN size ELSE memSize[m]]
  /\ memLocation' = [m \in Memories |-> IF m \in S THEN location ELSE memLocation[m]]
  /\ boundSet' = [m \in Memories |-> IF m \in S THEN {} ELSE boundSet[m]]

\* MemoryVal::HasBoundResources
HasBoundResources(m) == boundSet[m] # {}

\* MemoryVal::ReportBoundResources: the number of reports it issues, one for
\* every buffer, texture and acceleration structure still bound to the memory.
ReportBoundResources(m) == Cardinality(boundSet[m])

\* BufferVal::SetBoundToMemory and its texture twin, applied to a set of resources.
SetBoundToMemory(bd, S) == [r \in Resources |-> bd[r] \/ r \in S]

\* MemoryVal::BindBuffer / BindTexture / BindAccelerationStructure applied to
\* entry e: the memory records the resource (and the resource's flag is set,
\* SetBoundToMemory above).  The bodies of the MemoryVal methods and of the
\* proxies' destructors are outside DeviceVal.cpp; they follow the documented
\* data model: a memory tracks the resources bound to it, a destroyed
\* resource leaves the set, a bound resource carries the flag.
MemoryValBind(bs, e) == [bs EXCEPT ![e.mem] = @ \cup {e.res}]

(* ------------------------------ buffers ------------------------------- *)

BufferSizes == {0, 1}

\* DeviceVal::CreateBuffer(const BufferDesc&, Buffer*&)
CreateBuffer ==
  /\ pc = "idle"
  /\ \E b \in FreeOf(Buffers), size \in BufferSizes :
       IF size = 0
       THEN /\ Finish("CreateBuffer", INVALID_ARGUMENT, "size_zero", FALSE, {})
            /\ UNCHANGED << resourceVars, memoryVars, memoryTypeMap >>
       ELSE \E result \in BackendResults :
            /\ FinishCreate("CreateBuffer", result, {}, {b})
            /\ IF result = SUCCESS
               THEN AllocateResourceVal(b, FALSE) /\ UNCHANGED memoryDesc
               ELSE UNCHANGED resourceVars
            /\ UNCHANGED << memoryVars, memoryTypeMap >>

\* DeviceVal::AllocateBuffer(const AllocateBufferDesc&, Buffer*&)
AllocateBuffer ==
  /\ pc = "idle"
  /\ \E b \in FreeOf(Buffers), size \in BufferSizes :
       IF size = 0
       THEN /\ Finish("AllocateBuffer", INVALID_ARGUMENT, "size_zero", FALSE, {})
            /\ UNCHANGED << resourceVars, memoryVars, memoryTypeMap >>
       ELSE \E result \in BackendResults :
            /\ FinishCreate("AllocateBuffer", result, {}, {b})
            /\ IF result = SUCCESS
               THEN AllocateResourceVal(b, TRUE) /\ UNCHANGED memoryDesc
               ELSE UNCHANGED resourceVars
            /\ UNCHANGED << memoryVars, memoryTypeMap >>

\* DeviceVal::DestroyBuffer
DestroyBuffer ==
  /\ pc = "idle"
  /\ \E b \in LiveOf(Buffers) :
       /\ DestroyResourceVal(b)
       /\ UNCHANGED memoryDesc
       /\ Finish("DestroyBuffer", VOID, "ok", TRUE, {})
       /\ UNCHANGED << memLive, memSize, memLocation, memoryTypeMap >>

(* ------------------------------ textures ------------------------------ *)

\* Format values a client passes, in the order of the enum.
FormatOrder == << "UNKNOWN", "RGBA8_UNORM", "BC1_RGBA_UNORM", "MAX_NUM" >>
Formats == Range(FormatOrder)
FormatIndex(f) == CHOOSE i \in DOMAIN FormatOrder : FormatOrder[i] = f
FormatLess(f, g) == FormatIndex(f) < FormatIndex(g)

\* A mip count taken from the width alone.
RECURSIVE GetMaxMipNum_WidthOnly(_, _, _)
GetMaxMipNum_WidthOnly(w, h, d) ==
  IF w > 1 THEN 1 + GetMaxMipNum_WidthOnly(w \div 2, h, d) ELSE 1

\* static GetMaxMipNum(w, h, d)
RECURSIVE GetMaxMipNum(_, _, _)
GetMaxMipNum(w, h, d) ==
  IF w > 1 \/ h > 1 \/ d > 1
  THEN 1 + GetMaxMipNum(IF w > 1 THEN w \div 2 ELSE w,
                        IF h > 1 THEN h \div 2 ELSE h,
                        IF d > 1 THEN d \div 2 ELSE d)
  ELSE 1

TextureDesc(format, width, height, depth, mipNum, layerNum, sampleNum) ==
  [format |-> format, width |-> width, height |-> height, depth |-> depth,
   mipNum |-> mipNum, layerNum |-> layerNum, sampleNum |-> sampleNum]

\* Texture descriptors a client passes.
TextureDescs ==
  { TextureDesc("RGBA8_UNORM", 4, 2, 1, 3, 1, 1),
    TextureDesc("RGBA8_UNORM", 4, 2, 1, 4, 1, 1),
    TextureDesc("RGBA8_UNORM", 0, 2, 1, 1, 1, 1),
    TextureDesc("MAX_NUM", 4, 2, 1, 1, 1, 1),
    TextureDesc("RGBA8_UNORM", 1, 1, 1, 1, 1, 1),
    TextureDesc("RGBA8_UNORM", 1, 1, 1, 2, 1, 1),
    TextureDesc("RGBA8_UNORM", 2, 3, 5, 3, 1, 1),
    TextureDesc("RGBA8_UNORM", 2, 3, 5, 4, 1, 1),
    TextureDesc("RGBA8_UNORM", 4, 0, 1, 1, 1, 1),
    TextureDesc("RGBA8_UNORM", 4, 2, 0, 1, 1, 1),
    TextureDesc("RGBA8_UNORM", 4, 2, 1, 0, 1, 1),
    TextureDesc("RGBA8_UNORM", 4, 2, 1, 1, 0, 1),
    TextureDesc("RGBA8_UNORM", 4, 2, 1, 1, 1, 0),
    TextureDesc("UNKNOWN", 4, 2, 1, 1, 1, 1) }

\* The RETURN_ON_FAILURE chain of CreateTexture / AllocateTexture: the first
\* check that fails, or "ok".
TextureDescCheck(d) ==
  IF ~(FormatLess("UNKNOWN", d.format) /\ FormatLess(d.format, "MAX_NUM")) THEN "format_invalid"
  ELSE IF d.width = 0 THEN "width_zero"
  ELSE IF d.height = 0 THEN "height_zero"
  ELSE IF d.depth = 0 THEN "depth_zero"
  ELSE IF d.mipNum = 0 THEN "mipNum_zero"
  ELSE IF ~(d.mipNum <= GetMaxMipNum(d.width, d.height, d.depth)) THEN "mipNum_too_large"
  ELSE IF d.layerNum = 0 THEN "layerNum_zero"
  ELSE IF d.sampleNum = 0 THEN "sampleNum_zero"
  ELSE "ok"

\* DeviceVal::CreateTexture(const TextureDesc&, Texture*&)
CreateTexture ==
  /\ pc = "idle"
  /\ \E t \in FreeOf(Textures), d \in TextureDescs :
       IF TextureDescCheck(d) # "ok"
       THEN /\ FinishRequest("CreateTexture", INVALID_ARGUMENT, TextureDescCheck(d), FALSE, d)
            /\ UNCHANGED << resourceVars, memoryVars, memoryTypeMap, pipelineLayouts >>
       ELSE \E result \in BackendResults :
            /\ FinishRequestCreate("CreateTexture", result, d, {t})
            /\ IF result = SUCCESS
               THEN AllocateResourceVal(t, FALSE) /\ UNCHANGED memoryDesc
               ELSE UNCHANGED resourceVars
            /\ UNCHANGED << memoryVars, memoryTypeMap, pipelineLayouts >>

\* DeviceVal::AllocateTexture(const AllocateTextureDesc&, Texture*&)
AllocateTexture ==
  /\ pc = "idle"
  /\ \E t \in FreeOf(Textures), d \in TextureDescs :
       IF TextureDescCheck(d) # "ok"
       THEN /\ FinishRequest("AllocateTexture", INVALID_ARGUMENT, TextureDescCheck(d), FALSE, d)
            /\ UNCHANGED << resourceVars, memoryVars, memoryTypeMap, pipelineLayouts >>
       ELSE \E result \in BackendResults :
            /\ FinishRequestCreate("AllocateTexture", result, d, {t})
            /\ IF result = SUCCESS
               THEN AllocateResourceVal(t, TRUE) /\ UNCHANGED memoryDesc
               ELSE UNCHANGED resourceVars
            /\ UNCHANGED << memoryVars, memoryTypeMap, pipelineLayouts >>

\* DeviceVal::DestroyTexture
DestroyTexture ==
  /\ pc = "idle"
  /\ \E t \in LiveOf(Textures) :
       /\ DestroyResourceVal(t)
       /\ UNCHANGED memoryDesc
       /\ Finish("DestroyTexture", VOID, "ok", TRUE, {})
       /\ UNCHANGED << memLive, memSize, memLocation, memoryTypeMap >>

(* ---------------------- acceleration structures ----------------------- *)

\* instanceOrGeometryObjectNum values a client passes.
ObjectNums == {0, 1}

\* DeviceVal::CreateAccelerationStructure(const AccelerationStructureDesc&, ...):
\* the proxy stores the MemoryDesc the backend reports for MemoryLocation::DEVICE.
CreateAccelerationStructure ==
  /\ pc = "idle"
  /\ \E a \in FreeOf(AccelerationStructures), num \in ObjectNums :
       IF num = 0
       THEN /\ Finish("CreateAccelerationStructure", INVALID_ARGUMENT,
                      "objectNum_zero", FALSE, {})
            /\ UNCHANGED << resourceVars, memoryVars, memoryTypeMap >>
       ELSE \E result \in BackendResults :
            /\ FinishCreate("CreateAccelerationStructure", result, {}, {a})
            /\ IF result = SUCCESS
               THEN \E md \in MemoryDescs :
                    /\ AllocateResourceVal(a, FALSE)
                    /\ memoryDesc' = [memoryDesc EXCEPT ![a] = md]
               ELSE UNCHANGED resourceVars
            /\ UNCHANGED << memoryVars, memoryTypeMap >>

\* DeviceVal::AllocateAccelerationStructure
AllocateAccelerationStructure ==
  /\ pc = "idle"
  /\ \E a \in FreeOf(AccelerationStructures), num \in ObjectNums :
       IF num = 0
       THEN /\ Finish("AllocateAccelerationStructure", INVALID_ARGUMENT,
                      "objectNum_zero", FALSE, {})
            /\ UNCHANGED << resourceVars, memoryVars, memoryTypeMap >>
       ELSE \E result \in BackendResults :
            /\ FinishCreate("AllocateAccelerationStructure", result, {}, {a})
            /\ IF result = SUCCESS
               THEN \E md \in MemoryDescs :
                    /\ AllocateResourceVal(a, TRUE)
                    /\ memoryDesc' = [memoryDesc EXCEPT ![a] = md]
               ELSE UNCHANGED resourceVars
            /\ UNCHANGED << memoryVars, memoryTypeMap >>

\* DeviceVal::DestroyAccelerationStructure
DestroyAccelerationStructure ==
  /\ pc = "idle"
  /\ \E a \in LiveOf(AccelerationStructures) :
       /\ DestroyResourceVal(a)
       /\ memoryDesc' = [memoryDesc EXCEPT ![a] = ZeroMemoryDesc]
       /\ Finish("DestroyAccelerationStructure", VOID, "ok", FALSE, {})
       /\ UNCHANGED << memLive, memSize, memLocation, memoryTypeMap >>

(* ------------------------------- memory ------------------------------- *)

\* DeviceVal::RegisterMemoryType
RegisterMemoryType ==
  /\ pc = "idle"
  /\ \E t \in MemoryTypes, location \in KnownLocations :
       memoryTypeMap' = [memoryTypeMap EXCEPT ![t] = location]
  /\ Finish("RegisterMemoryType", VOID, "ok", FALSE, {})
  /\ UNCHANGED << resourceVars, memoryVars >>

\* allocateMemoryDesc.priority, in tenths.
Priorities == {0, 20}
PriorityInRange(p) == p >= -10 /\ p <= 10

\* DeviceVal::AllocateMemory
AllocateMemory ==
  /\ pc = "idle"
  /\ FreeMemories # {}
  /\ \E size \in MemorySizes, priority \in Priorities, t \in MemoryTypes :
       IF ~(size > 0)
       THEN /\ Finish("AllocateMemory", INVALID_ARGUMENT, "size_zero", FALSE, {})
            /\ UNCHANGED << resourceVars, memoryVars, memoryTypeMap >>
       ELSE IF ~PriorityInRange(priority)
       THEN /\ Finish("AllocateMemory", INVALID_ARGUMENT, "priority_out_of_range", FALSE, {})
            /\ UNCHANGED << resourceVars, memoryVars, memoryTypeMap >>
       ELSE IF memoryTypeMap[t] = NoLocation
       THEN /\ Finish("AllocateMemory", FAILURE, "memoryType_invalid", FALSE, {})
            /\ UNCHANGED << resourceVars, memoryVars, memoryTypeMap >>
       ELSE \E result \in BackendResults :
            /\ FinishCreate("AllocateMemory", result, {}, NewMemories(1))
            /\ IF result = SUCCESS
               THEN AllocateMemoryVal(NewMemories(1), size, memoryTypeMap[t])
               ELSE UNCHANGED memoryVars
            /\ UNCHANGED << resourceVars, memoryTypeMap >>

\* DeviceVal::CreateMemory(const MemoryVKDesc&, Memory*&): imported memory.
CreateMemoryVK ==
  /\ pc = "idle"
  /\ FreeMemories # {}
  /\ \E vkDeviceMemory \in {NULL, "handle"}, size \in MemorySizes :
       IF vkDeviceMemory = NULL
       THEN /\ Finish("CreateMemoryVK", INVALID_ARGUMENT, "handle_null", FALSE, {})
            /\ UNCHANGED << resourceVars, memoryVars, memoryTypeMap >>
       ELSE IF ~(size > 0)
       THEN /\ Finish("CreateMemoryVK", INVALID_ARGUMENT, "size_zero", FALSE, {})
            /\ UNCHANGED << resourceVars, memoryVars, memoryTypeMap >>
       ELSE \E result \in BackendResults :
            /\ FinishCreate("CreateMemoryVK", result, {}, NewMemories(1))
            /\ IF result = SUCCESS
               THEN AllocateMemoryVal(NewMemories(1), size, MAX_NUM)
               ELSE UNCHANGED memoryVars
            /\ UNCHANGED << resourceVars, memoryTypeMap >>

\* A FreeMemory that frees whatever is still bound to the memory.
FreeMemory_Unchecked ==
  /\ pc = "idle"
  /\ \E m \in LiveMemories :
       /\ Finish("FreeMemory", VOID, "ok", TRUE, {m})
       /\ memLive' = [memLive EXCEPT ![m] = FALSE]
       /\ memSize' = [memSize EXCEPT ![m] = 0]
       /\ memLocation' = [memLocation EXCEPT ![m] = MAX_NUM]
       /\ UNCHANGED << boundSet, resourceVars, memoryTypeMap >>

\* DeviceVal::FreeMemory(Memory& memory); the call names the memory.
FreeMemory ==
  /\ pc = "idle"
  /\ \E m \in LiveMemories :
       IF HasBoundResources(m)
       THEN /\ FinishOut("FreeMemory", VOID, "resources_still_bound", FALSE, {m},
                      Unwritten, ReportBoundResources(m) + 1)
            /\ UNCHANGED << resourceVars, memoryVars, memoryTypeMap >>
       ELSE /\ Finish("FreeMemory", VOID, "ok", TRUE, {m})
            /\ memLive' = [memLive EXCEPT ![m] = FALSE]
            /\ memSize' = [memSize EXCEPT ![m] = 0]
            /\ memLocation' = [memLocation EXCEPT ![m] = MAX_NUM]
            /\ UNCHANGED << boundSet, resourceVars, memoryTypeMap >>

(* --------------------------- memory binding --------------------------- *)

\* const uint64_t rangeMax = srcDesc.offset + memoryDesc.size;
RangeMax(offset, size) == (offset + size) % Wrap

\* An offset check without the dedicated-allocation test.
OffsetCheck_NoDedicated(md, offset) ==
  IF ~(md.alignment # 0) THEN "alignment_zero"
  ELSE IF ~(offset % md.alignment = 0) THEN "misaligned"
  ELSE "ok"

\* The three checks every Bind*Memory handler makes on the entry's offset
\* against the resource's MemoryDesc, up to the read of the memory's size.
OffsetCheck(md, offset) ==
  IF ~(~md.mustBeDedicated \/ offset = 0) THEN "dedicated_offset"
  ELSE IF ~(md.alignment # 0) THEN "alignment_zero"
  ELSE IF ~(offset % md.alignment = 0) THEN "misaligned"
  ELSE "ok"

\* A size check that treats a recorded size of 0 as a real size.
SizeCheck_SizeAlwaysKnown(md, offset, m) ==
  IF RangeMax(offset, md.size) <= memSize[m] THEN "ok" ELSE "offset_invalid"

\* memorySizeIsUnknown || rangeMax <= memory.GetSize()
SizeCheck(md, offset, m) ==
  IF memSize[m] = 0 \/ RangeMax(offset, md.size) <= memSize[m]
  THEN "ok" ELSE "offset_invalid"

\* A binding entry as an iteration of a validation loop sees it: the entry of
\* the caller's array (res, mem, offset) and md, the MemoryDesc the iteration
\* works with.
Entry(res, mem, offset, md) == [res |-> res, mem |-> mem, offset |-> offset, md |-> md]

\* One iteration of the loop of BindBufferMemory on entry e, e.md being the
\* backend's reply to GetBufferMemoryDesc: the first RETURN_ON_FAILURE that
\* fires, or "ok".
BufferEntryCheck(e) ==
  IF e.res = NULL THEN "buffer_null"
  ELSE IF e.mem = NULL THEN "memory_null"
  ELSE IF bound[e.res] THEN "already_bound"
  ELSE IF memLocation[e.mem] = MAX_NUM THEN "ok"
  ELSE IF OffsetCheck(e.md, e.offset) # "ok" THEN OffsetCheck(e.md, e.offset)
  ELSE SizeCheck(e.md, e.offset, e.mem)

\* One iteration of the loop of BindTextureMemory, e.md being the backend's
\* reply to GetTextureMemoryDesc.
TextureEntryCheck(e) ==
  IF e.res = NULL THEN "texture_null"
  ELSE IF e.mem = NULL THEN "memory_null"
  ELSE IF bound[e.res] THEN "already_bound"
  ELSE IF memLocation[e.mem] = MAX_NUM THEN "ok"
  ELSE IF OffsetCheck(e.md, e.offset) # "ok" THEN OffsetCheck(e.md, e.offset)
  ELSE SizeCheck(e.md, e.offset, e.mem)

\* One iteration of the loop of BindAccelerationStructureMemory, e.md being
\* accelerationStructure.GetMemoryDesc().  The handler has no null checks:
\* accelerationStructure.IsBoundToMemory() reads through
\* srcDesc.accelerationStructure and memory.GetSize() through srcDesc.memory;
\* the read through nullptr faults ("crash") and the handler never returns.
AccelerationStructureEntryCheck(e) ==
  IF e.res = NULL THEN "crash"
  ELSE IF bound[e.res] THEN "already_bound"
  ELSE IF OffsetCheck(e.md, e.offset) # "ok" THEN OffsetCheck(e.md, e.offset)
  ELSE IF e.mem = NULL THEN "crash"
  ELSE SizeCheck(e.md, e.offset, e.mem)

\* The entries a client can pass to the three handlers in the current state.
BufferEntries ==
  { Entry(res, mem, offset, md) :
      res \in LiveOf(Buffers) \cup {NULL}, mem \in LiveMemories \cup {NULL},
      offset \in Offsets, md \in MemoryDescs }

TextureEntries ==
  { Entry(res, mem, offset, md) :
      res \in LiveOf(Textures) \cup {NULL}, mem \in LiveMemories \cup {NULL},
      offset \in Offsets, md \in MemoryDescs }

AccelerationStructureEntries ==
  { Entry(res, mem, offset, IF res = NULL THEN ZeroMemoryDesc ELSE memoryDesc[res]) :
      res \in LiveOf(AccelerationStructures) \cup {NULL},
      mem \in LiveMemories \cup {NULL}, offset \in Offsets }

\* The entry point up to the loop: the array pointer check and StackAlloc.
BindCall(op) ==
  /\ pc = "idle"
  /\ \E memoryBindingDescs \in {NULL, "array"} :
       IF memoryBindingDescs = NULL
       THEN Finish(op, INVALID_ARGUMENT, "array_null", FALSE, {})
       ELSE /\ pc' = op
            /\ impl' = << >>
            /\ call' = Returned(op, PENDING, "ok", FALSE, {})
            /\ handle' = Unwritten
            /\ reports' = 0
            /\ UNCHANGED << validationVars, deviceVars, lockVars >>
  /\ UNCHANGED << resourceVars, memoryVars, memoryTypeMap >>

\* A validation-loop iteration that writes destDesc and, at once, marks the
\* resource bound: the batch is applied entry by entry.
BindValidateEntry_Eager(op, check, e) ==
  /\ pc = op
  /\ Len(impl) < MaxBatch
  /\ IF check = "ok"
     THEN /\ impl' = Append(impl, [res |-> e.res, mem |-> e.mem])
          /\ bound' = [bound EXCEPT ![e.res] = TRUE]
          /\ UNCHANGED << pc, call >>
     ELSE /\ impl' = << >>
          /\ pc' = IF check = "crash" THEN "crashed" ELSE "returned"
          /\ call' = IF check = "crash"
                     THEN Returned(op, CRASH, "null_dereference", FALSE, {})
                     ELSE Returned(op, INVALID_ARGUMENT, check, FALSE, {})
          /\ UNCHANGED bound
  /\ reports' = IF check \in {"ok", "crash"} THEN reports ELSE reports + 1
  /\ UNCHANGED << live, memoryDesc, memoryVars, memoryTypeMap, validationVars,
                  handle, deviceVars, lockVars >>

\* Iteration i = Len(impl) of the validation loop reading entry e (i is below
\* memoryBindingDescNum, which is at most MaxBatch); check is the outcome of
\* the iteration's checks on e.
BindValidateEntry(op, check, e) ==
  /\ pc = op
  /\ Len(impl) < MaxBatch
  /\ IF check = "ok"
     THEN /\ impl' = Append(impl, [res |-> e.res, mem |-> e.mem])
          /\ UNCHANGED << pc, call >>
     ELSE /\ impl' = << >>
          /\ pc' = IF check = "crash" THEN "crashed" ELSE "returned"
          /\ call' = IF check = "crash"
                     THEN Returned(op, CRASH, "null_dereference", FALSE, {})
                     ELSE Returned(op, INVALID_ARGUMENT, check, FALSE, {})
  /\ reports' = IF check \in {"ok", "crash"} THEN reports ELSE reports + 1
  /\ UNCHANGED << resourceVars, memoryVars, memoryTypeMap, validationVars,
                  handle, deviceVars, lockVars >>

\* A recording loop that stops one entry short (i + 1 < memoryBindingDescNum).
RecordedIndices_SkipLast(entries) == 1..(Len(entries) - 1)

\* for (i = 0; i < memoryBindingDescNum; i++) of the recording loop.
RecordedIndices(entries) == 1..Len(entries)

\* The recording loop: memory.BindBuffer(buffer) for every recorded entry.
RECURSIVE RecordBindings(_, _, _)
RecordBindings(bs, entries, indices) ==
  IF indices = {} THEN bs
  ELSE LET i == CHOOSE j \in indices : \A k \in indices : j <= k
       IN RecordBindings(MemoryValBind(bs, entries[i]), entries, indices \ {i})

\* A handler that runs the recording loop whatever the backend returned.
BindForward_IgnoringResult(op) ==
  /\ pc = op
  /\ \E result \in BackendResults :
       /\ call' = Returned(op, result, "ok", TRUE, { impl[i].res : i \in DOMAIN impl })
       /\ boundSet' = RecordBindings(boundSet, impl, RecordedIndices(impl))
       /\ bound' = SetBoundToMemory(bound,
                      { impl[i].res : i \in RecordedIndices(impl) })
  /\ pc' = "returned"
  /\ impl' = << >>
  /\ UNCHANGED << live, memoryDesc, memLive, memSize, memLocation, memoryTypeMap,
                  validationVars, handle, reports, deviceVars, lockVars >>

\* A forward that records the resources in the memories' bound-sets before it
\* looks at the backend's result.
BindForward_RecordsOnFailure(op) ==
  /\ pc = op
  /\ \E result \in BackendResults :
       /\ call' = Returned(op, result, "ok", TRUE, { impl[i].res : i \in DOMAIN impl })
       /\ boundSet' = RecordBindings(boundSet, impl, RecordedIndices(impl))
       /\ IF result = SUCCESS
          THEN bound' = SetBoundToMemory(bound,
                           { impl[i].res : i \in RecordedIndices(impl) })
          ELSE UNCHANGED bound
  /\ pc' = "returned"
  /\ impl' = << >>
  /\ UNCHANGED << live, memoryDesc, memLive, memSize, memLocation, memoryTypeMap,
                  validationVars, handle, reports, deviceVars, lockVars >>

\* The loop has ended (Len(impl) = memoryBindingDescNum): the backend call on
\* the validated array and, on SUCCESS, the recording loop, which reads the
\* caller's array again: memory.Bind*(resource) for every entry.
BindForward(op) ==
  /\ pc = op
  /\ \E result \in BackendResults :
       /\ call' = Returned(op, result, "ok", TRUE, { impl[i].res : i \in DOMAIN impl })
       /\ IF result = SUCCESS
          THEN /\ boundSet' = RecordBindings(boundSet, impl, RecordedIndices(impl))
               /\ bound' = SetBoundToMemory(bound,
                              { impl[i].res : i \in RecordedIndices(impl) })
          ELSE UNCHANGED << boundSet, bound >>
  /\ pc' = "returned"
  /\ impl' = << >>
  /\ UNCHANGED << live, memoryDesc, memLive, memSize, memLocation, memoryTypeMap,
                  validationVars, handle, reports, deviceVars, lockVars >>

\* DeviceVal::BindBufferMemory
BindBufferMemory == BindCall("BindBufferMemory")
BindBufferMemory_Validate ==
  \E e \in BufferEntries : BindValidateEntry("BindBufferMemory", BufferEntryCheck(e), e)
BindBufferMemory_Forward == BindForward("BindBufferMemory")

\* DeviceVal::BindTextureMemory
BindTextureMemory == BindCall("BindTextureMemory")
BindTextureMemory_Validate ==
  \E e \in TextureEntries : BindValidateEntry("BindTextureMemory", TextureEntryCheck(e), e)
BindTextureMemory_Forward == BindForward("BindTextureMemory")

\* DeviceVal::BindAccelerationStructureMemory
BindAccelerationStructureMemory == BindCall("BindAccelerationStructureMemory")
BindAccelerationStructureMemory_Validate ==
  \E e \in AccelerationStructureEntries :
     BindValidateEntry("BindAccelerationStructureMemory",
                       AccelerationStructureEntryCheck(e), e)
BindAccelerationStructureMemory_Forward == BindForward("BindAccelerationStructureMemory")

(* ----------------------- allocate and bind memory --------------------- *)

\* resourceGroupDesc.buffers / .textures with bufferNum / textureNum: a null
\* pointer with a nonzero count, or an array of proxies and null pointers.
GroupArrays(kind) ==
  { [null |-> FALSE, elems |-> s] : s \in BoundedSeq(LiveOf(kind) \cup {NULL}, MaxGroup) }
    \cup { [null |-> TRUE, elems |-> << NULL >>] }

\* The argument checks shared by CalculateAllocationNumber and
\* AllocateAndBindMemory: the first one that fails, or "ok".
ResourceGroupDescCheck(memoryLocation, buffers, textures) ==
  IF ~(memoryLocation # MAX_NUM) THEN "memoryLocation_invalid"
  ELSE IF ~(Len(buffers.elems) = 0 \/ ~buffers.null) THEN "buffers_null"
  ELSE IF ~(Len(textures.elems) = 0 \/ ~textures.null) THEN "textures_null"
  ELSE IF \E i \in DOMAIN buffers.elems : buffers.elems[i] = NULL THEN "buffer_null"
  ELSE IF \E i \in DOMAIN textures.elems : textures.elems[i] = NULL THEN "texture_null"
  ELSE "ok"

\* DeviceVal::CalculateAllocationNumber: 0 when a check fails, else the
\* backend's number n.
CalculateAllocationNumber(memoryLocation, buffers, textures, n) ==
  IF ResourceGroupDescCheck(memoryLocation, buffers, textures) # "ok" THEN 0 ELSE n

\* DeviceVal::AllocateAndBindMemory. The arguments are drawn in the order the
\* checks read them, so a call that fails a check is drawn once whatever its
\* later arguments are.
AllocateAndBindMemory ==
  /\ pc = "idle"
  /\ \E allocations \in {NULL, "array"} :
       IF allocations = NULL
       THEN /\ Finish("AllocateAndBindMemory", INVALID_ARGUMENT, "allocations_null",
                      FALSE, {})
            /\ UNCHANGED << resourceVars, memoryVars >>
       ELSE \E memoryLocation \in MemoryLocations :
         IF ~(memoryLocation # MAX_NUM)
         THEN /\ Finish("AllocateAndBindMemory", INVALID_ARGUMENT,
                        "memoryLocation_invalid", FALSE, {})
              /\ UNCHANGED << resourceVars, memoryVars >>
         ELSE \E buffers \in GroupArrays(Buffers) :
           IF ~(Len(buffers.elems) = 0 \/ ~buffers.null)
           THEN /\ Finish("AllocateAndBindMemory", INVALID_ARGUMENT, "buffers_null",
                          FALSE, {})
                /\ UNCHANGED << resourceVars, memoryVars >>
           ELSE \E textures \in GroupArrays(Textures) :
             LET c == ResourceGroupDescCheck(memoryLocation, buffers, textures)
                 named == Range(buffers.elems) \cup Range(textures.elems)
             IN IF c # "ok"
                THEN /\ Finish("AllocateAndBindMemory", INVALID_ARGUMENT, c, FALSE, {})
                     /\ UNCHANGED << resourceVars, memoryVars >>
                ELSE \E result \in BackendResults :
                     \E n \in 0..Min(MaxAllocations, Cardinality(FreeMemories)) :
                     LET allocated == NewMemories(CalculateAllocationNumber(
                                         memoryLocation, buffers, textures, n))
                     IN
                     /\ FinishCreate("AllocateAndBindMemory", result, named, allocated)
                     /\ IF result = SUCCESS
                        THEN /\ bound' = SetBoundToMemory(bound, named)
                             /\ AllocateMemoryVal(allocated, 0, memoryLocation)
                        ELSE UNCHANGED << bound, memoryVars >>
                     /\ UNCHANGED << live, memoryDesc >>
  /\ UNCHANGED memoryTypeMap

(* ----------------------------- stage bits ----------------------------- *)

\* StageBits is a uint32_t bit mask.  The model keeps eight of its bits, in
\* the order of the enum: a stage that is no shader (INDEX_INPUT), four
\* graphics shader stages, the compute stage and two ray tracing stages.
INDEX_INPUT == 1
VERTEX_SHADER == 2
GEOMETRY_SHADER == 4
MESH_CONTROL_SHADER == 8
FRAGMENT_SHADER == 16
COMPUTE_SHADER == 32
RAYGEN_SHADER == 64
MISS_SHADER == 128

GRAPHICS_SHADERS == VERTEX_SHADER + GEOMETRY_SHADER + MESH_CONTROL_SHADER + FRAGMENT_SHADER
RAY_TRACING_SHADERS == RAYGEN_SHADER + MISS_SHADER

\* The two special values of the enum: ALL has no bit set ("lazy default"),
\* NONE has every bit below the sign bit set.
StageBitsALL == 0
StageBitsNONE == 255

\* operator & and operator | on the masks.
RECURSIVE BitAnd(_, _)
BitAnd(a, b) ==
  IF a = 0 \/ b = 0 THEN 0
  ELSE (a % 2) * (b % 2) + 2 * BitAnd(a \div 2, b \div 2)

RECURSIVE BitOr(_, _)
BitOr(a, b) ==
  IF a = 0 THEN b
  ELSE IF b = 0 THEN a
  ELSE (IF a % 2 = 1 \/ b % 2 = 1 THEN 1 ELSE 0) + 2 * BitOr(a \div 2, b \div 2)

\* while (x) { n += x & 1; x >>= 1; }
RECURSIVE CountBits(_, _)
CountBits(x, n) == IF x = 0 THEN n ELSE CountBits(x \div 2, n + (x % 2))

\* An IsShaderStageValid that does not look at the stages seen so far.
IsShaderStageValid_NoUnique(shaderStages, uniqueShaderStages, allowedStages) ==
  [valid |-> CountBits(BitAnd(shaderStages, allowedStages), 0) = 1,
   uniqueShaderStages |-> BitOr(uniqueShaderStages, shaderStages)]

\* static IsShaderStageValid(shaderStages, uniqueShaderStages, allowedStages):
\* the value it returns and the value it leaves in uniqueShaderStages.
IsShaderStageValid(shaderStages, uniqueShaderStages, allowedStages) ==
  LET n == CountBits(BitAnd(shaderStages, allowedStages), 0)
      isUnique == BitAnd(uniqueShaderStages, shaderStages) = 0
  IN [valid |-> n = 1 /\ isUnique,
      uniqueShaderStages |-> BitOr(uniqueShaderStages, shaderStages)]

(* -------------------------- pipeline layouts -------------------------- *)

\* Largest rangeNum of a descriptor set.
MaxRanges == 2

DescriptorTypeOrder == << "SAMPLER", "MAX_NUM" >>
DescriptorTypeIndex(t) == CHOOSE i \in DOMAIN DescriptorTypeOrder : DescriptorTypeOrder[i] = t

DescriptorRangeDesc(isDescriptorNumVariable, isArray, descriptorNum, descriptorType, shaderStages) ==
  [isDescriptorNumVariable |-> isDescriptorNumVariable, isArray |-> isArray,
   descriptorNum |-> descriptorNum, descriptorType |-> descriptorType,
   shaderStages |-> shaderStages]

\* Descriptor ranges a client passes.
DescriptorRangeDescs ==
  { DescriptorRangeDesc(FALSE, FALSE, 1, "SAMPLER", StageBitsALL),
    DescriptorRangeDesc(TRUE, TRUE, 1, "SAMPLER", VERTEX_SHADER),
    DescriptorRangeDesc(TRUE, FALSE, 1, "SAMPLER", StageBitsALL),
    DescriptorRangeDesc(FALSE, FALSE, 0, "SAMPLER", StageBitsALL),
    DescriptorRangeDesc(FALSE, FALSE, 1, "MAX_NUM", StageBitsALL),
    DescriptorRangeDesc(FALSE, TRUE, 1, "SAMPLER", VERTEX_SHADER + FRAGMENT_SHADER),
    DescriptorRangeDesc(FALSE, FALSE, 1, "SAMPLER", COMPUTE_SHADER) }

\* pipelineLayoutDesc.shaderStages values a client passes.
LayoutStages ==
  { StageBitsALL, StageBitsNONE, INDEX_INPUT,
    VERTEX_SHADER, VERTEX_SHADER + FRAGMENT_SHADER, GRAPHICS_SHADERS,
    VERTEX_SHADER + INDEX_INPUT, COMPUTE_SHADER, RAY_TRACING_SHADERS, MISS_SHADER,
    VERTEX_SHADER + COMPUTE_SHADER, COMPUTE_SHADER + RAYGEN_SHADER,
    GRAPHICS_SHADERS + RAY_TRACING_SHADERS }

\* Pipeline layout descriptors a client passes: the stage mask and the
\* descriptor sets, each the array of its ranges: no set, one set of up to
\* MaxRanges ranges, or two sets of one range each.
PipelineLayoutDescs ==
  { [shaderStages |-> stages, descriptorSets |-> sets] :
      stages \in LayoutStages,
      sets \in { << >> } \cup
               { << ranges >> : ranges \in BoundedSeq(DescriptorRangeDescs, MaxRanges) } \cup
               { << << r1 >>, << r2 >> >> : r1, r2 \in DescriptorRangeDescs } }

\* The checks of the inner loop on one range.
DescriptorRangeCheck(range, shaderStages) ==
  IF ~(~range.isDescriptorNumVariable \/ range.isArray) THEN "variable_not_array"
  ELSE IF ~(range.descriptorNum > 0) THEN "descriptorNum_zero"
  ELSE IF ~(DescriptorTypeIndex(range.descriptorType) < DescriptorTypeIndex("MAX_NUM"))
       THEN "descriptorType_invalid"
  ELSE IF range.shaderStages # StageBitsALL
          /\ ~(range.shaderStages = BitAnd(range.shaderStages, shaderStages))
       THEN "visibility_incompatible"
  ELSE "ok"

\* for (j = 0; j < descriptorSetDesc.rangeNum; j++): the first check that
\* fails from range j on, or "ok".
RECURSIVE DescriptorRangesCheck(_, _, _)
DescriptorRangesCheck(ranges, j, shaderStages) ==
  IF j > Len(ranges) THEN "ok"
  ELSE IF DescriptorRangeCheck(ranges[j], shaderStages) # "ok"
       THEN DescriptorRangeCheck(ranges[j], shaderStages)
  ELSE DescriptorRangesCheck(ranges, j + 1, shaderStages)

\* for (i = 0; i < pipelineLayoutDesc.descriptorSetNum; i++)
RECURSIVE DescriptorSetsCheck(_, _, _)
DescriptorSetsCheck(sets, i, shaderStages) ==
  IF i > Len(sets) THEN "ok"
  ELSE IF DescriptorRangesCheck(sets[i], 1, shaderStages) # "ok"
       THEN DescriptorRangesCheck(sets[i], 1, shaderStages)
  ELSE DescriptorSetsCheck(sets, i + 1, shaderStages)

\* A CreatePipelineLayout that takes any non-empty stage mask.
PipelineLayoutDescCheck_AnyFamilies(desc) ==
  IF ~(desc.shaderStages # StageBitsNONE) THEN "shaderStages_none"
  ELSE IF desc.shaderStages = 0 THEN "no_supported_stage"
  ELSE DescriptorSetsCheck(desc.descriptorSets, 1, desc.shaderStages)

\* A CreatePipelineLayout without the checks on the ranges.
PipelineLayoutDescCheck_NoRanges(desc) ==
  LET supportedTypes ==
        (IF BitAnd(desc.shaderStages, GRAPHICS_SHADERS) # 0 THEN 1 ELSE 0)
        + (IF BitAnd(desc.shaderStages, COMPUTE_SHADER) # 0 THEN 1 ELSE 0)
        + (IF BitAnd(desc.shaderStages, RAY_TRACING_SHADERS) # 0 THEN 1 ELSE 0)
  IN IF supportedTypes = 1 THEN "ok" ELSE "more_than_one_type"

\* The RETURN_ON_FAILURE chain of CreatePipelineLayout: the first check that
\* fails, or "ok".
PipelineLayoutDescCheck(desc) ==
  LET isGraphics == BitAnd(desc.shaderStages, GRAPHICS_SHADERS) # 0
      isCompute == BitAnd(desc.shaderStages, COMPUTE_SHADER) # 0
      isRayTracing == BitAnd(desc.shaderStages, RAY_TRACING_SHADERS) # 0
      supportedTypes == (IF isGraphics THEN 1 ELSE 0) + (IF isCompute THEN 1 ELSE 0)
                        + (IF isRayTracing THEN 1 ELSE 0)
  IN IF ~(desc.shaderStages # StageBitsNONE) THEN "shaderStages_none"
     ELSE IF ~(supportedTypes > 0) THEN "no_supported_stage"
     ELSE IF ~(supportedTypes = 1) THEN "more_than_one_type"
     ELSE DescriptorSetsCheck(desc.descriptorSets, 1, desc.shaderStages)

LiveLayouts == { l \in PipelineLayouts : pipelineLayouts[l].live }
FreeLayouts == { l \in PipelineLayouts : ~pipelineLayouts[l].live }

\* DeviceVal::CreatePipelineLayout: the proxy keeps pipelineLayoutDesc, of which
\* the pipeline checks read shaderStages back.
CreatePipelineLayout ==
  /\ pc = "idle"
  /\ \E l \in FreeLayouts, desc \in PipelineLayoutDescs :
       IF PipelineLayoutDescCheck(desc) # "ok"
       THEN /\ FinishRequest("CreatePipelineLayout", INVALID_ARGUMENT,
                             PipelineLayoutDescCheck(desc), FALSE, desc)
            /\ UNCHANGED pipelineLayouts
       ELSE \E result \in BackendResults :
            /\ FinishRequestCreate("CreatePipelineLayout", result, desc, {l})
            /\ IF result = SUCCESS
               THEN pipelineLayouts' =
                      [pipelineLayouts EXCEPT ![l] =
                         [live |-> TRUE, shaderStages |-> desc.shaderStages]]
               ELSE UNCHANGED pipelineLayouts
  /\ UNCHANGED << resourceVars, memoryVars, memoryTypeMap >>

\* DeviceVal::DestroyPipelineLayout
DestroyPipelineLayout ==
  /\ pc = "idle"
  /\ \E l \in LiveLayouts :
       /\ pipelineLayouts' = [pipelineLayouts EXCEPT ![l] = NoLayout]
       /\ FinishRequest("DestroyPipelineLayout", VOID, "ok", TRUE, NoRequest)
  /\ UNCHANGED << resourceVars, memoryVars, memoryTypeMap >>

(* ------------------------------ pipelines ----------------------------- *)

\* Largest shaderNum of a graphics pipeline or of a shader library.
MaxShaders == 3

\* uint32_t arithmetic (attribute->offset + size) is modelled modulo 2^UInt32Bits.
UInt32Bits == 3
Wrap32 == 2 ^ UInt32Bits
UMax32 == Wrap32 - 1

ShaderDesc(stage, bytecode, size) == [stage |-> stage, bytecode |-> bytecode, size |-> size]

\* A pointer to an array with its count: the array elems, or nullptr.
Array(elems) == [null |-> FALSE, elems |-> elems]
NullArray == [null |-> TRUE, elems |-> << >>]

\* Shaders a client passes to the graphics CreatePipeline.
GraphicsShaderDescs ==
  { ShaderDesc(stage, "bytecode", 1) :
      stage \in { VERTEX_SHADER, MESH_CONTROL_SHADER, FRAGMENT_SHADER, GEOMETRY_SHADER,
                  FRAGMENT_SHADER + GEOMETRY_SHADER, FRAGMENT_SHADER + COMPUTE_SHADER,
                  INDEX_INPUT, StageBitsALL } }
    \cup { ShaderDesc(FRAGMENT_SHADER, NULL, 1), ShaderDesc(FRAGMENT_SHADER, "bytecode", 0) }

\* uniqueShaderStages after iterations 0 .. i-1 of a shader loop, each of which
\* has called IsShaderStageValid with the family allowedStages.
RECURSIVE UniqueShaderStages(_, _, _)
UniqueShaderStages(shaders, i, allowedStages) ==
  IF i = 0 THEN 0
  ELSE IsShaderStageValid(shaders[i].stage,
                          UniqueShaderStages(shaders, i - 1, allowedStages),
                          allowedStages).uniqueShaderStages

\* The shader loop of the graphics CreatePipeline from iteration i on, with
\* shaderStages the stage mask of the pipeline layout: the first
\* RETURN_ON_FAILURE that fires, or "ok".
RECURSIVE GraphicsShadersCheck(_, _, _)
GraphicsShadersCheck(shaders, i, shaderStages) ==
  IF i > Len(shaders) THEN "ok"
  ELSE IF ~(BitAnd(shaders[i].stage, shaderStages) # 0) THEN "stage_not_enabled"
  ELSE IF ~(shaders[i].bytecode # NULL) THEN "bytecode_null"
  ELSE IF ~(shaders[i].size # 0) THEN "size_zero"
  ELSE IF ~IsShaderStageValid(shaders[i].stage,
                              UniqueShaderStages(shaders, i - 1, GRAPHICS_SHADERS),
                              GRAPHICS_SHADERS).valid
       THEN "stage_invalid"
  ELSE GraphicsShadersCheck(shaders, i + 1, shaderStages)

\* A pipeline that needs no entry point.
HasEntryPoint_Always(shaders) == TRUE

\* hasEntryPoint after the shader loop has run over every entry.
HasEntryPoint(shaders) ==
  \E i \in DOMAIN shaders :
     shaders[i].stage = VERTEX_SHADER \/ shaders[i].stage = MESH_CONTROL_SHADER

\* The loop over outputMerger.color.
ColorsCheck(colors) ==
  IF \E i \in DOMAIN colors :
        ~(FormatLess("UNKNOWN", colors[i]) /\ FormatLess(colors[i], "BC1_RGBA_UNORM"))
  THEN "color_format_invalid" ELSE "ok"

\* GetFormatProps(format).stride: the bytes of one element of the format.
FormatStride(format) == IF format = "RGBA8_UNORM" THEN 4 ELSE 0

VertexAttributeDesc(offset, format, streamIndex) ==
  [offset |-> offset, format |-> format, streamIndex |-> streamIndex]

\* Vertex attributes a client passes; streamIndex counts from 0.
VertexAttributeDescs ==
  { VertexAttributeDesc(0, "RGBA8_UNORM", 0),
    VertexAttributeDesc(1, "RGBA8_UNORM", 0),
    VertexAttributeDesc(UMax32, "RGBA8_UNORM", 0),
    VertexAttributeDesc(0, "RGBA8_UNORM", 1) }

\* Vertex input descriptions a client passes: one stream of stride 4 or 5 and
\* up to two attributes.
VertexInputDescs ==
  { [null |-> FALSE, streams |-> << stride >>, attributes |-> attributes] :
      stride \in {4, 5}, attributes \in BoundedSeq(VertexAttributeDescs, 2) }

\* graphicsPipelineDesc.vertexInput == nullptr
NoVertexInput == [null |-> TRUE, streams |-> << >>, attributes |-> << >>]

\* The read of streams[attribute->streamIndex].stride faulted.
Fault == -1

\* What the read of streams[attribute->streamIndex].stride can give: the
\* stride of the stream, or, for an index past the end of the array, whatever
\* lies there, or a fault.
StrideReads(vertexInput, attribute) ==
  IF attribute.streamIndex < Len(vertexInput.streams)
  THEN { vertexInput.streams[attribute.streamIndex + 1] }
  ELSE (0..UMax32) \cup {Fault}

\* attribute->offset + size <= stride, in uint32_t.
AttributeInBounds(offset, size, stride) == (offset + size) % Wrap32 <= stride

\* The loop over vertexInput->attributes from iteration i on: the ways it
\* can end.
RECURSIVE VertexInputOutcomes(_, _)
VertexInputOutcomes(vertexInput, i) ==
  IF i > Len(vertexInput.attributes) THEN {"ok"}
  ELSE UNION {
         IF stride = Fault THEN {"crash"}
         ELSE IF ~AttributeInBounds(vertexInput.attributes[i].offset,
                                    FormatStride(vertexInput.attributes[i].format), stride)
              THEN {"attribute_out_of_bounds"}
         ELSE VertexInputOutcomes(vertexInput, i + 1)
         : stride \in StrideReads(vertexInput, vertexInput.attributes[i]) }

\* Graphics pipeline descriptors a client passes: any shader array with a
\* valid output merger and no vertex input, or a vertex and a fragment shader
\* with any output merger and vertex input.
GraphicsPipelineDescs ==
  { [pipelineLayout |-> l, shaders |-> shaders,
     colors |-> << "RGBA8_UNORM" >>, vertexInput |-> NoVertexInput] :
      l \in LiveLayouts \cup {NULL},
      shaders \in { Array(elems) : elems \in BoundedSeq(GraphicsShaderDescs, MaxShaders) }
                  \cup {NullArray} }
  \cup
  { [pipelineLayout |-> l,
     shaders |-> Array(<< ShaderDesc(VERTEX_SHADER, "bytecode", 1),
                          ShaderDesc(FRAGMENT_SHADER, "bytecode", 1) >>),
     colors |-> colors, vertexInput |-> vertexInput] :
      l \in LiveLayouts,
      colors \in { << >>, << "RGBA8_UNORM", "BC1_RGBA_UNORM" >>, << "UNKNOWN" >> },
      vertexInput \in VertexInputDescs }

\* The graphics CreatePipeline up to its backend call: the ways it can end.
GraphicsPipelineDescOutcomes(desc) ==
  IF ~(desc.pipelineLayout # NULL) THEN {"pipelineLayout_null"}
  ELSE IF ~(~desc.shaders.null) THEN {"shaders_null"}
  ELSE IF ~(Len(desc.shaders.elems) > 0) THEN {"shaderNum_zero"}
  ELSE IF GraphicsShadersCheck(desc.shaders.elems, 1,
                               pipelineLayouts[desc.pipelineLayout].shaderStages) # "ok"
       THEN { GraphicsShadersCheck(desc.shaders.elems, 1,
                                   pipelineLayouts[desc.pipelineLayout].shaderStages) }
  ELSE IF ~HasEntryPoint(desc.shaders.elems) THEN {"no_entry_point"}
  ELSE IF ColorsCheck(desc.colors) # "ok" THEN { ColorsCheck(desc.colors) }
  ELSE IF ~desc.vertexInput.null THEN VertexInputOutcomes(desc.vertexInput, 1)
  ELSE {"ok"}

\* Allocate<PipelineVal> / Allocate<DescriptorVal> / ...: the proxy a Create*
\* handler stores in its output handle.
ProxyOf(op) ==
  IF op \in {"CreateGraphicsPipeline", "CreateComputePipeline", "CreateRayTracingPipeline"}
  THEN "PipelineVal"
  ELSE IF op = "CreateQueryPool" THEN "QueryPoolVal"
  ELSE IF op = "CreateSwapChain" THEN "SwapChainVal"
  ELSE "DescriptorVal"

\* A Create* handler that ends with outcome: a fault, a failed check, or the
\* backend call and its result.
\* A creation handler that calls the backend before it looks at its argument.
CreateFrom_BackendFirst(op, desc, outcome) ==
  IF outcome = "crash"
  THEN /\ pc' = "crashed"
       /\ impl' = << >>
       /\ call' = Returned(op, CRASH, "out_of_bounds_read", FALSE, {})
       /\ request' = desc
       /\ handle' = Unwritten
       /\ reports' = 0
       /\ UNCHANGED << deviceVars, lockVars >>
  ELSE IF outcome # "ok"
  THEN FinishRequestOut(op, INVALID_ARGUMENT, outcome, TRUE, desc, Unwritten, 1)
  ELSE \E result \in BackendResults : FinishRequestCreate(op, result, desc, {ProxyOf(op)})

CreateFrom(op, desc, outcome) ==
  IF outcome = "crash"
  THEN /\ pc' = "crashed"
       /\ impl' = << >>
       /\ call' = Returned(op, CRASH, "out_of_bounds_read", FALSE, {})
       /\ request' = desc
       /\ handle' = Unwritten
       /\ reports' = 0
       /\ UNCHANGED << deviceVars, lockVars >>
  ELSE IF outcome # "ok"
  THEN FinishRequest(op, INVALID_ARGUMENT, outcome, FALSE, desc)
  ELSE \E result \in BackendResults : FinishRequestCreate(op, result, desc, {ProxyOf(op)})

\* DeviceVal::CreatePipeline(const GraphicsPipelineDesc&, Pipeline*&)
CreateGraphicsPipeline ==
  /\ pc = "idle"
  /\ \E desc \in GraphicsPipelineDescs :
       \E outcome \in GraphicsPipelineDescOutcomes(desc) :
          CreateFrom("CreateGraphicsPipeline", desc, outcome)
  /\ UNCHANGED << resourceVars, memoryVars, memoryTypeMap, pipelineLayouts >>

\* Compute pipeline descriptors a client passes.
ComputePipelineDescs ==
  { [pipelineLayout |-> l, shader |-> shader] :
      l \in LiveLayouts \cup {NULL},
      shader \in { ShaderDesc(COMPUTE_SHADER, "bytecode", 1),
                   ShaderDesc(COMPUTE_SHADER, "bytecode", 0),
                   ShaderDesc(COMPUTE_SHADER, NULL, 1),
                   ShaderDesc(COMPUTE_SHADER + INDEX_INPUT, "bytecode", 1),
                   ShaderDesc(VERTEX_SHADER, "bytecode", 1) } }

ComputePipelineDescCheck(desc) ==
  IF ~(desc.pipelineLayout # NULL) THEN "pipelineLayout_null"
  ELSE IF ~(desc.shader.size # 0) THEN "size_zero"
  ELSE IF ~(desc.shader.bytecode # NULL) THEN "bytecode_null"
  ELSE IF ~(desc.shader.stage = COMPUTE_SHADER) THEN "stage_not_compute"
  ELSE "ok"

\* DeviceVal::CreatePipeline(const ComputePipelineDesc&, Pipeline*&)
CreateComputePipeline ==
  /\ pc = "idle"
  /\ \E desc \in ComputePipelineDescs :
       CreateFrom("CreateComputePipeline", desc, ComputePipelineDescCheck(desc))
  /\ UNCHANGED << resourceVars, memoryVars, memoryTypeMap, pipelineLayouts >>

\* Shaders a client passes in a ray tracing shader library.
RayTracingShaderDescs ==
  { ShaderDesc(stage, "bytecode", 1) :
      stage \in { RAYGEN_SHADER, MISS_SHADER, RAYGEN_SHADER + MISS_SHADER,
                  RAYGEN_SHADER + INDEX_INPUT, MISS_SHADER + INDEX_INPUT,
                  COMPUTE_SHADER, StageBitsALL } }
    \cup { ShaderDesc(MISS_SHADER, NULL, 1), ShaderDesc(MISS_SHADER, "bytecode", 0) }

\* Ray tracing pipeline descriptors a client passes: any shader library with
\* valid counts, or a library of one shader with any counts and pointers.
RayTracingPipelineDescs ==
  { [pipelineLayout |-> l, shaderLibrary |-> library, shaderGroupDescs |-> "array",
     shaderGroupDescNum |-> 1, recursionDepthMax |-> 1] :
      l \in LiveLayouts \cup {NULL},
      library \in { Array(elems) : elems \in BoundedSeq(RayTracingShaderDescs, MaxShaders) }
                  \cup {NullArray} }
  \cup
  { [pipelineLayout |-> l,
     shaderLibrary |-> Array(<< ShaderDesc(RAYGEN_SHADER, "bytecode", 1) >>),
     shaderGroupDescs |-> groups, shaderGroupDescNum |-> groupNum,
     recursionDepthMax |-> depth] :
      l \in LiveLayouts, groups \in {NULL, "array"}, groupNum \in {0, 1}, depth \in {0, 1} }

\* The loop over shaderLibrary->shaders from iteration i on.
RECURSIVE RayTracingShadersCheck(_, _)
RayTracingShadersCheck(shaders, i) ==
  IF i > Len(shaders) THEN "ok"
  ELSE IF ~(shaders[i].bytecode # NULL) THEN "bytecode_null"
  ELSE IF ~(shaders[i].size # 0) THEN "size_zero"
  ELSE IF ~IsShaderStageValid(shaders[i].stage,
                              UniqueShaderStages(shaders, i - 1, RAY_TRACING_SHADERS),
                              RAY_TRACING_SHADERS).valid
       THEN "stage_invalid"
  ELSE RayTracingShadersCheck(shaders, i + 1)

\* A ray tracing CreatePipeline that does not look at recursionDepthMax.
RayTracingPipelineDescCheck_AnyDepth(desc) ==
  IF ~(desc.pipelineLayout # NULL) THEN "pipelineLayout_null"
  ELSE IF ~(~desc.shaderLibrary.null) THEN "shaderLibrary_null"
  ELSE IF ~(desc.shaderGroupDescs # NULL) THEN "shaderGroupDescs_null"
  ELSE IF ~(desc.shaderGroupDescNum # 0) THEN "shaderGroupDescNum_zero"
  ELSE RayTracingShadersCheck(desc.shaderLibrary.elems, 1)

\* The RETURN_ON_FAILURE chain of the ray tracing CreatePipeline.
RayTracingPipelineDescCheck(desc) ==
  IF ~(desc.pipelineLayout # NULL) THEN "pipelineLayout_null"
  ELSE IF ~(~desc.shaderLibrary.null) THEN "shaderLibrary_null"
  ELSE IF ~(desc.shaderGroupDescs # NULL) THEN "shaderGroupDescs_null"
  ELSE IF ~(desc.shaderGroupDescNum # 0) THEN "shaderGroupDescNum_zero"
  ELSE IF ~(desc.recursionDepthMax # 0) THEN "recursionDepthMax_zero"
  ELSE RayTracingShadersCheck(desc.shaderLibrary.elems, 1)

\* DeviceVal::CreatePipeline(const RayTracingPipelineDesc&, Pipeline*&)
CreateRayTracingPipeline ==
  /\ pc = "idle"
  /\ \E desc \in RayTracingPipelineDescs :
       CreateFrom("CreateRayTracingPipeline", desc, RayTracingPipelineDescCheck(desc))
  /\ UNCHANGED << resourceVars, memoryVars, memoryTypeMap, pipelineLayouts >>

(* -------------------------------- views ------------------------------- *)

\* What a view descriptor names as its parent: a null pointer, or a BufferVal /
\* TextureVal proxy whose GetDesc() returns desc.
Parent(desc) == [null |-> FALSE, desc |-> desc]
NullParent(desc) == [null |-> TRUE, desc |-> desc]

\* BufferViewType / Texture1DViewType / Texture2DViewType / Texture3DViewType
\* values a client passes: a value of the enum, or its MAX_NUM.
ViewTypes == {"SHADER_RESOURCE", "MAX_NUM"}

\* Recorded descriptors of the buffers a view is created on.
ViewBufferDescs == { [size |-> s] : s \in {1, 2, UMax} }

BufferViewDesc(buffer, viewType, format, offset, size) ==
  [buffer |-> buffer, viewType |-> viewType, format |-> format,
   offset |-> offset, size |-> size]

\* Buffer view descriptors a client passes.
BufferViewDescs ==
  { BufferViewDesc(Parent(b), "SHADER_RESOURCE", format, offset, size) :
      b \in ViewBufferDescs, format \in {"UNKNOWN", "RGBA8_UNORM"},
      offset \in {0, 1, 2, UMax}, size \in {0, 1, 2, UMax} }
  \cup
  { BufferViewDesc(NullParent([size |-> 2]), "SHADER_RESOURCE", "RGBA8_UNORM", 0, 1),
    BufferViewDesc(Parent([size |-> 2]), "MAX_NUM", "RGBA8_UNORM", 0, 1),
    BufferViewDesc(Parent([size |-> 2]), "SHADER_RESOURCE", "MAX_NUM", 0, 1) }

\* The RETURN_ON_FAILURE chain of CreateDescriptor(const BufferViewDesc&, ...):
\* offset + size is a uint64_t sum.
BufferViewDescCheck(desc) ==
  IF ~(~desc.buffer.null) THEN "buffer_null"
  ELSE IF ~FormatLess(desc.format, "MAX_NUM") THEN "format_invalid"
  ELSE IF ~(desc.viewType # "MAX_NUM") THEN "viewType_invalid"
  ELSE IF ~(desc.offset < desc.buffer.desc.size) THEN "offset_invalid"
  ELSE IF ~((desc.offset + desc.size) % Wrap <= desc.buffer.desc.size) THEN "size_invalid"
  ELSE "ok"

\* DeviceVal::CreateDescriptor(const BufferViewDesc&, Descriptor*&)
CreateBufferView ==
  /\ pc = "idle"
  /\ \E desc \in BufferViewDescs :
       CreateFrom("CreateBufferView", desc, BufferViewDescCheck(desc))
  /\ UNCHANGED << resourceVars, memoryVars, memoryTypeMap, pipelineLayouts >>

\* Recorded descriptors of the textures a view is created on: descriptors
\* that CreateTexture accepts.
ViewTextureDescs ==
  { d \in { TextureDesc("RGBA8_UNORM", 8, 8, 2, 4, 2, 1),
            TextureDesc("RGBA8_UNORM", 4, 2, 1, 3, 1, 1) } : TextureDescCheck(d) = "ok" }

\* mipOffset, layerOffset, sliceOffset and mipNum, layerNum, sliceNum values a
\* client passes; 65535 is the largest value of a 16-bit field.
ViewOffsets == {0, 1, 3, 4}
ViewNums == {0, 1, 2, 3, 65535}

\* Texture1DViewDesc and Texture2DViewDesc
TextureViewDesc(texture, viewType, format, mipOffset, mipNum, layerOffset, layerNum) ==
  [texture |-> texture, viewType |-> viewType, format |-> format,
   mipOffset |-> mipOffset, mipNum |-> mipNum,
   layerOffset |-> layerOffset, layerNum |-> layerNum]

\* Texture3DViewDesc
Texture3DViewDesc(texture, viewType, format, mipOffset, mipNum, sliceOffset, sliceNum) ==
  [texture |-> texture, viewType |-> viewType, format |-> format,
   mipOffset |-> mipOffset, mipNum |-> mipNum,
   sliceOffset |-> sliceOffset, sliceNum |-> sliceNum]

\* 1D and 2D texture view descriptors a client passes.
TextureViewDescs ==
  { TextureViewDesc(Parent(t), "SHADER_RESOURCE", "RGBA8_UNORM", mo, mn, lo, ln) :
      t \in ViewTextureDescs, mo \in ViewOffsets, mn \in ViewNums,
      lo \in {0, 1, 2}, ln \in {0, 1, 2, 65535} }
  \cup
  { TextureViewDesc(NullParent(t), "SHADER_RESOURCE", "RGBA8_UNORM", 0, 1, 0, 1) :
      t \in ViewTextureDescs }
  \cup
  { TextureViewDesc(Parent(t), viewType, format, 0, 1, 0, 1) :
      t \in ViewTextureDescs, viewType \in ViewTypes, format \in Formats }

\* 3D texture view descriptors a client passes.
Texture3DViewDescs ==
  { Texture3DViewDesc(Parent(t), "SHADER_RESOURCE", "RGBA8_UNORM", mo, mn, so, sn) :
      t \in ViewTextureDescs, mo \in ViewOffsets, mn \in ViewNums,
      so \in {0, 1, 2}, sn \in {0, 1, 2, 65535} }
  \cup
  { Texture3DViewDesc(NullParent(t), "SHADER_RESOURCE", "RGBA8_UNORM", 0, 1, 0, 1) :
      t \in ViewTextureDescs }
  \cup
  { Texture3DViewDesc(Parent(t), viewType, format, 0, 1, 0, 1) :
      t \in ViewTextureDescs, viewType \in ViewTypes, format \in Formats }

\* A 1D view check whose mip range may end one level past the texture's last.
Texture1DViewDescCheck_OnePast(desc) ==
  IF ~(~desc.texture.null) THEN "texture_null"
  ELSE IF ~(desc.viewType # "MAX_NUM") THEN "viewType_invalid"
  ELSE IF ~(FormatLess("UNKNOWN", desc.format) /\ FormatLess(desc.format, "MAX_NUM"))
       THEN "format_invalid"
  ELSE IF ~(desc.mipOffset < desc.texture.desc.mipNum) THEN "mipOffset_invalid"
  ELSE IF ~(desc.mipOffset + desc.mipNum <= desc.texture.desc.mipNum + 1) THEN "mipNum_invalid"
  ELSE IF ~(desc.layerOffset < desc.texture.desc.layerNum) THEN "layerOffset_invalid"
  ELSE IF ~(desc.layerOffset + desc.layerNum <= desc.texture.desc.layerNum)
       THEN "layerNum_invalid"
  ELSE "ok"

\* The RETURN_ON_FAILURE chain of CreateDescriptor(const Texture1DViewDesc&, ...).
\* The operands of the sums are 16 bits wide or narrower and are promoted to
\* int: the sums do not wrap.
Texture1DViewDescCheck(desc) ==
  IF ~(~desc.texture.null) THEN "texture_null"
  ELSE IF ~(desc.viewType # "MAX_NUM") THEN "viewType_invalid"
  ELSE IF ~(FormatLess("UNKNOWN", desc.format) /\ FormatLess(desc.format, "MAX_NUM"))
       THEN "format_invalid"
  ELSE IF ~(desc.mipOffset < desc.texture.desc.mipNum) THEN "mipOffset_invalid"
  ELSE IF ~(desc.mipOffset + desc.mipNum <= desc.texture.desc.mipNum) THEN "mipNum_invalid"
  ELSE IF ~(desc.layerOffset < desc.texture.desc.layerNum) THEN "layerOffset_invalid"
  ELSE IF ~(desc.layerOffset + desc.layerNum <= desc.texture.desc.layerNum)
       THEN "layerNum_invalid"
  ELSE "ok"

\* The RETURN_ON_FAILURE chain of CreateDescriptor(const Texture2DViewDesc&, ...).
Texture2DViewDescCheck(desc) ==
  IF ~(~desc.texture.null) THEN "texture_null"
  ELSE IF ~(desc.viewType # "MAX_NUM") THEN "viewType_invalid"
  ELSE IF ~(FormatLess("UNKNOWN", desc.format) /\ FormatLess(desc.format, "MAX_NUM"))
       THEN "format_invalid"
  ELSE IF ~(desc.mipOffset < desc.texture.desc.mipNum) THEN "mipOffset_invalid"
  ELSE IF ~(desc.mipOffset + desc.mipNum <= desc.texture.desc.mipNum) THEN "mipNum_invalid"
  ELSE IF ~(desc.layerOffset < desc.texture.desc.layerNum) THEN "layerOffset_invalid"
  ELSE IF ~(desc.layerOffset + desc.layerNum <= desc.texture.desc.layerNum)
       THEN "layerNum_invalid"
  ELSE "ok"

\* The RETURN_ON_FAILURE chain of CreateDescriptor(const Texture3DViewDesc&, ...).
Texture3DViewDescCheck(desc) ==
  IF ~(~desc.texture.null) THEN "texture_null"
  ELSE IF ~(desc.viewType # "MAX_NUM") THEN "viewType_invalid"
  ELSE IF ~(FormatLess("UNKNOWN", desc.format) /\ FormatLess(desc.format, "MAX_NUM"))
       THEN "format_invalid"
  ELSE IF ~(desc.mipOffset < desc.texture.desc.mipNum) THEN "mipOffset_invalid"
  ELSE IF ~(desc.mipOffset + desc.mipNum <= desc.texture.desc.mipNum) THEN "mipNum_invalid"
  ELSE IF ~(desc.sliceOffset < desc.texture.desc.depth) THEN "sliceOffset_invalid"
  ELSE IF ~(desc.sliceOffset + desc.sliceNum <= desc.texture.desc.depth)
       THEN "sliceNum_invalid"
  ELSE "ok"

\* DeviceVal::CreateDescriptor(const Texture1DViewDesc&, Descriptor*&)
CreateTexture1DView ==
  /\ pc = "idle"
  /\ \E desc \in TextureViewDescs :
       CreateFrom("CreateTexture1DView", desc, Texture1DViewDescCheck(desc))
  /\ UNCHANGED << resourceVars, memoryVars, memoryTypeMap, pipelineLayouts >>

\* DeviceVal::CreateDescriptor(const Texture2DViewDesc&, Descriptor*&)
CreateTexture2DView ==
  /\ pc = "idle"
  /\ \E desc \in TextureViewDescs :
       CreateFrom("CreateTexture2DView", desc, Texture2DViewDescCheck(desc))
  /\ UNCHANGED << resourceVars, memoryVars, memoryTypeMap, pipelineLayouts >>

\* DeviceVal::CreateDescriptor(const Texture3DViewDesc&, Descriptor*&)
CreateTexture3DView ==
  /\ pc = "idle"
  /\ \E desc \in Texture3DViewDescs :
       CreateFrom("CreateTexture3DView", desc, Texture3DViewDescCheck(desc))
  /\ UNCHANGED << resourceVars, memoryVars, memoryTypeMap, pipelineLayouts >>

(* ------------------- query pools, swap chains, samplers ---------------- *)

\* Query pool descriptors a client passes.
QueryPoolDescs == [queryType : {"TIMESTAMP", MAX_NUM}, capacity : {0, 1, 2}]

QueryPoolDescCheck(desc) ==
  IF ~(desc.queryType # MAX_NUM) THEN "queryType_invalid"
  ELSE IF ~(desc.capacity > 0) THEN "capacity_zero"
  ELSE "ok"

\* DeviceVal::CreateQueryPool(const QueryPoolDesc&, QueryPool*&)
CreateQueryPool ==
  /\ pc = "idle"
  /\ \E desc \in QueryPoolDescs :
       CreateFrom("CreateQueryPool", desc, QueryPoolDescCheck(desc))
  /\ UNCHANGED << resourceVars, memoryVars, memoryTypeMap, pipelineLayouts >>

\* Swap chain descriptors a client passes.
SwapChainDescs ==
  [commandQueue : {NULL, "queue"}, width : {0, 1}, height : {0, 1},
   textureNum : {0, 2}, format : {"BT709_G22_8BIT", MAX_NUM}]

SwapChainDescCheck(desc) ==
  IF ~(desc.commandQueue # NULL) THEN "commandQueue_null"
  ELSE IF ~(desc.width # 0) THEN "width_zero"
  ELSE IF ~(desc.height # 0) THEN "height_zero"
  ELSE IF ~(desc.textureNum > 0) THEN "textureNum_invalid"
  ELSE IF ~(desc.format # MAX_NUM) THEN "format_invalid"
  ELSE "ok"

\* DeviceVal::CreateSwapChain
CreateSwapChain ==
  /\ pc = "idle"
  /\ \E desc \in SwapChainDescs :
       CreateFrom("CreateSwapChain", desc, SwapChainDescCheck(desc))
  /\ UNCHANGED << resourceVars, memoryVars, memoryTypeMap, pipelineLayouts >>

\* The enum fields of a SamplerDesc other than filters.ext, in the order the
\* handler tests them.
SamplerEnums == << "mag", "min", "mip", "u", "v", "w", "compareFunc", "borderColor" >>

\* Sampler descriptors a client passes: at most one of the enum fields is
\* MAX_NUM; isTextureFilterMinMaxSupported is what GetDesc() of the backend
\* device says.
SamplerDescs ==
  { [invalid |-> S, ext |-> ext, isTextureFilterMinMaxSupported |-> s] :
      S \in {{}} \cup { {SamplerEnums[i]} : i \in DOMAIN SamplerEnums },
      ext \in {"NONE", "MIN", MAX_NUM},
      s \in BOOLEAN }

SamplerDescCheck(desc) ==
  IF ~("mag" \notin desc.invalid) THEN "filters_mag_invalid"
  ELSE IF ~("min" \notin desc.invalid) THEN "filters_min_invalid"
  ELSE IF ~("mip" \notin desc.invalid) THEN "filters_mip_invalid"
  ELSE IF ~(desc.ext # MAX_NUM) THEN "filters_ext_invalid"
  ELSE IF ~("u" \notin desc.invalid) THEN "addressModes_u_invalid"
  ELSE IF ~("v" \notin desc.invalid) THEN "addressModes_v_invalid"
  ELSE IF ~("w" \notin desc.invalid) THEN "addressModes_w_invalid"
  ELSE IF ~("compareFunc" \notin desc.invalid) THEN "compareFunc_invalid"
  ELSE IF ~("borderColor" \notin desc.invalid) THEN "borderColor_invalid"
  ELSE IF ~desc.isTextureFilterMinMaxSupported /\ ~(desc.ext = "NONE")
  THEN "isTextureFilterMinMaxSupported_unsupported"
  ELSE "ok"

\* DeviceVal::CreateDescriptor(const SamplerDesc&, Descriptor*&)
CreateSampler ==
  /\ pc = "idle"
  /\ \E desc \in SamplerDescs :
       CreateFrom("CreateSampler", desc, SamplerDescCheck(desc))
  /\ UNCHANGED << resourceVars, memoryVars, memoryTypeMap, pipelineLayouts >>

(* ------------------- memory types under concurrency ------------------- *)

\* The locations a backend callback thread registers.
CallbackLocations == KnownLocations \cup {"HOST_UPLOAD"}

\* What is left alone by a step of a handler that has not returned yet.
ClientCallFrame ==
  UNCHANGED << impl, call, handle, reports, validationVars, deviceVars, resourceVars >>

\* DeviceVal::AllocateMemory, the argument checks on entry.
AllocateMemory_Call ==
  /\ pc = "idle"
  /\ FreeMemories # {}
  /\ \E size \in MemorySizes, priority \in Priorities, t \in MemoryTypes :
       IF ~(size > 0)
       THEN /\ Finish("AllocateMemory", INVALID_ARGUMENT, "size_zero", FALSE, {})
            /\ UNCHANGED << resourceVars, memoryVars, memoryTypeMap >>
       ELSE IF ~PriorityInRange(priority)
       THEN /\ Finish("AllocateMemory", INVALID_ARGUMENT, "priority_out_of_range", FALSE, {})
            /\ UNCHANGED << resourceVars, memoryVars, memoryTypeMap >>
       ELSE /\ pc' = "AllocateMemory_lock"
            /\ alloc' = [size |-> size, type |-> t, it |-> "unset", stale |-> FALSE]
            /\ ClientCallFrame
            /\ UNCHANGED << memoryVars, memoryTypeMap, lock, cbpc, access >>

\* ExclusiveScope lockScope(m_Lock) of AllocateMemory.
AllocateMemory_Lock ==
  /\ pc = "AllocateMemory_lock"
  /\ lock = "free"
  /\ lock' = "client"
  /\ pc' = "AllocateMemory_find"
  /\ ClientCallFrame
  /\ UNCHANGED << memoryVars, memoryTypeMap, cbpc, alloc, access >>

\* it = m_MemoryTypeMap.find(type); end = m_MemoryTypeMap.end(); and the end of
\* the lock's scope.
AllocateMemory_Find ==
  /\ pc = "AllocateMemory_find"
  /\ access' = [by |-> "client", op |-> "find", locked |-> lock = "client", stale |-> FALSE]
  /\ alloc' = [alloc EXCEPT !.it = IF memoryTypeMap[alloc.type] = NoLocation
                                   THEN "end" ELSE "entry"]
  /\ lock' = "free"
  /\ pc' = "AllocateMemory_found"
  /\ ClientCallFrame
  /\ UNCHANGED << memoryVars, memoryTypeMap, cbpc >>

\* AllocateMemory returns (or the process dies in it): its locals are gone.
AllocateMemory_Return(result, reason, forwarded, out, n) ==
  /\ pc' = IF result = CRASH THEN "crashed" ELSE "returned"
  /\ impl' = << >>
  /\ call' = Returned("AllocateMemory", result, reason, forwarded, {})
  /\ handle' = out
  /\ reports' = n
  /\ alloc' = NoAlloc
  /\ UNCHANGED << validationVars, deviceVars, resourceVars, memoryTypeMap, lock, cbpc >>

\* The rest of AllocateMemory: the test of it against end, the backend call
\* and, when it succeeds, Allocate<MemoryVal> with it->second. The lock is not
\* taken again; when the map was written after the find, the iterator is read
\* in a data race with the writer and the read has no defined outcome.
AllocateMemory_Allocate ==
  /\ pc = "AllocateMemory_found"
  /\ IF ~(alloc.it # "end")
     THEN /\ AllocateMemory_Return(FAILURE, "memoryType_invalid", FALSE, Unwritten, 1)
          /\ UNCHANGED << memoryVars, access >>
     ELSE \E result \in BackendResults :
          IF result # SUCCESS
          THEN /\ AllocateMemory_Return(result, "ok", TRUE, Unwritten, 0)
               /\ UNCHANGED << memoryVars, access >>
          ELSE /\ access' = [by |-> "client", op |-> "read", locked |-> lock = "client",
                             stale |-> alloc.stale]
               /\ IF ~alloc.stale
                  THEN /\ AllocateMemory_Return(result, "ok", TRUE, NewMemories(1), 0)
                       /\ AllocateMemoryVal(NewMemories(1), alloc.size,
                                            memoryTypeMap[alloc.type])
                  ELSE \/ \E location \in CallbackLocations \cup {MAX_NUM} :
                            /\ AllocateMemory_Return(result, "ok", TRUE, NewMemories(1), 0)
                            /\ AllocateMemoryVal(NewMemories(1), alloc.size, location)
                       \/ /\ AllocateMemory_Return(CRASH, "invalidated_iterator", TRUE,
                                                   Unwritten, 0)
                          /\ UNCHANGED memoryVars

\* What a step of the callback thread leaves alone.
CallbackFrame ==
  UNCHANGED << pc, impl, call, handle, reports, validationVars, deviceVars,
               resourceVars, memoryVars >>

\* ExclusiveScope lockScope(m_Lock) of RegisterMemoryType, on a callback thread.
RegisterMemoryType_Lock ==
  /\ cbpc = "idle"
  /\ lock = "free"
  /\ lock' = "callback"
  /\ cbpc' = "RegisterMemoryType_store"
  /\ CallbackFrame
  /\ UNCHANGED << memoryTypeMap, alloc, access >>

\* m_MemoryTypeMap[memoryType] = memoryLocation; and the end of the lock's
\* scope. An iterator a client obtained before the write is stale after it.
RegisterMemoryType_Store ==
  /\ cbpc = "RegisterMemoryType_store"
  /\ \E t \in MemoryTypes, location \in CallbackLocations :
       memoryTypeMap' = [memoryTypeMap EXCEPT ![t] = location]
  /\ access' = [by |-> "callback", op |-> "write", locked |-> lock = "callback",
                stale |-> FALSE]
  /\ alloc' = IF alloc.it = "entry" THEN [alloc EXCEPT !.stale = TRUE] ELSE alloc
  /\ lock' = "free"
  /\ cbpc' = "idle"
  /\ CallbackFrame

(* ------------------------------- device ------------------------------- *)

\* Most CommandQueueVal proxies the model lets the device allocate per type.
MaxQueueVals == 2

\* m_CommandQueues[i] before the first GetCommandQueue of type i.
NullQueue == 0

TableNames == Range(MandatoryTables) \cup OptionalTables

\* The results of deviceBase.FillFunctionTable, one per table of the backend.
TableFills == [TableNames -> BackendResults]

\* A Create that does not ask for the streamer table.
DeviceVal_Create_NoStreamer(fill) ==
  IF fill["CoreInterface"] # SUCCESS THEN "CoreInterface"
  ELSE IF fill["HelperInterface"] # SUCCESS THEN "HelperInterface"
  ELSE IF fill["ResourceAllocatorInterface"] # SUCCESS THEN "ResourceAllocatorInterface"
  ELSE "ok"

\* DeviceVal::Create up to the optional tables: the mandatory table whose query
\* failed (REPORT_ERROR, return false), or "ok".
DeviceVal_Create(fill) ==
  IF fill["CoreInterface"] # SUCCESS THEN "CoreInterface"
  ELSE IF fill["HelperInterface"] # SUCCESS THEN "HelperInterface"
  ELSE IF fill["StreamerInterface"] # SUCCESS THEN "StreamerInterface"
  ELSE IF fill["ResourceAllocatorInterface"] # SUCCESS THEN "ResourceAllocatorInterface"
  ELSE "ok"

\* DeviceVal::~DeviceVal: Destroy of every m_CommandQueues[i] (a null pointer
\* is not a proxy), then Destruct of the wrapped backend device.
DestroyDeviceVal ==
  /\ deviceVal' = "destroyed"
  /\ queueVals' = [t \in CommandQueueTypes |->
                     IF commandQueues[t] # NullQueue
                     THEN [queueVals[t] EXCEPT !.destroyed = @ + 1]
                     ELSE queueVals[t]]
  /\ UNCHANGED << commandQueues, capabilities >>

\* CreateDeviceValidation: Allocate<DeviceVal>, Create, and Destroy of the
\* DeviceVal when Create returns false.
CreateDeviceValidation ==
  /\ pc = "idle"
  /\ deviceVal = "unallocated"
  /\ \E fill \in TableFills :
       IF DeviceVal_Create(fill) # "ok"
       THEN /\ FinishDevice("CreateDeviceValidation", NULL, DeviceVal_Create(fill),
                            TRUE, [tables |-> fill], Unwritten)
            /\ DestroyDeviceVal
       ELSE /\ FinishDevice("CreateDeviceValidation", "deviceVal", "ok",
                            TRUE, [tables |-> fill], {"DeviceVal"})
            /\ deviceVal' = "created"
            /\ capabilities' = [t \in OptionalTables |-> fill[t] = SUCCESS]
            /\ UNCHANGED << commandQueues, queueVals >>
  /\ UNCHANGED << resourceVars, memoryVars, memoryTypeMap, pipelineLayouts >>

\* The CommandQueueVal proxy number index of queue type type.
QueueVal(type, index) == [type |-> type, index |-> index]

\* A GetCommandQueue that wraps the backend queue in a new proxy on every call.
GetCommandQueue_AlwaysAllocate ==
  /\ pc = "idle"
  /\ deviceVal = "created"
  /\ \E commandQueueType \in CommandQueueTypes \cup {"MAX_NUM"} :
       IF ~(commandQueueType # "MAX_NUM")
       THEN /\ FinishDevice("GetCommandQueue", INVALID_ARGUMENT, "commandQueueType_invalid",
                            FALSE, [commandQueueType |-> commandQueueType], Unwritten)
            /\ UNCHANGED deviceVars
       ELSE \E result \in BackendResults :
            IF result = SUCCESS
            THEN LET index == queueVals[commandQueueType].allocated + 1
                 IN /\ queueVals[commandQueueType].allocated < MaxQueueVals
                    /\ FinishDevice("GetCommandQueue", result, "ok", TRUE,
                                    [commandQueueType |-> commandQueueType],
                                    { QueueVal(commandQueueType, index) })
                    /\ commandQueues' = [commandQueues EXCEPT ![commandQueueType] = index]
                    /\ queueVals' = [queueVals EXCEPT ![commandQueueType].allocated = index]
                    /\ UNCHANGED << deviceVal, capabilities >>
            ELSE /\ FinishDevice("GetCommandQueue", result, "ok", TRUE,
                                 [commandQueueType |-> commandQueueType], Unwritten)
                 /\ UNCHANGED deviceVars
  /\ UNCHANGED << resourceVars, memoryVars, memoryTypeMap, pipelineLayouts >>

\* DeviceVal::GetCommandQueue
GetCommandQueue ==
  /\ pc = "idle"
  /\ deviceVal = "created"
  /\ \E commandQueueType \in CommandQueueTypes \cup {"MAX_NUM"} :
       IF ~(commandQueueType # "MAX_NUM")
       THEN /\ FinishDevice("GetCommandQueue", INVALID_ARGUMENT, "commandQueueType_invalid",
                            FALSE, [commandQueueType |-> commandQueueType], Unwritten)
            /\ UNCHANGED deviceVars
       ELSE \E result \in BackendResults :
            IF result = SUCCESS
            THEN LET cached == commandQueues[commandQueueType] # NullQueue
                     index == IF cached THEN commandQueues[commandQueueType]
                              ELSE queueVals[commandQueueType].allocated + 1
                 IN /\ cached \/ queueVals[commandQueueType].allocated < MaxQueueVals
                    /\ FinishDevice("GetCommandQueue", result, "ok", TRUE,
                                    [commandQueueType |-> commandQueueType],
                                    { QueueVal(commandQueueType, index) })
                    /\ commandQueues' = [commandQueues EXCEPT ![commandQueueType] = index]
                    /\ queueVals' = [queueVals EXCEPT ![commandQueueType].allocated =
                                       IF cached THEN @ ELSE index]
                    /\ UNCHANGED << deviceVal, capabilities >>
            ELSE /\ FinishDevice("GetCommandQueue", result, "ok", TRUE,
                                 [commandQueueType |-> commandQueueType], Unwritten)
                 /\ UNCHANGED deviceVars
  /\ UNCHANGED << resourceVars, memoryVars, memoryTypeMap, pipelineLayouts >>

\* DeviceVal::Destruct: Destroy(GetStdAllocator(), this).
Destruct ==
  /\ pc = "idle"
  /\ deviceVal = "created"
  /\ DestroyDeviceVal
  /\ FinishDevice("Destruct", VOID, "ok", TRUE, NoRequest, Unwritten)
  /\ UNCHANGED << resourceVars, memoryVars, memoryTypeMap, pipelineLayouts >>

(* ------------------------------- return ------------------------------- *)

\* return result; the client has the handler's result and goes on to its
\* next call.
Return ==
  /\ pc = "returned"
  /\ pc' = "idle"
  /\ call' = Returned("none", SUCCESS, "ok", FALSE, {})
  /\ request' = NoRequest
  /\ handle' = Unwritten
  /\ reports' = 0
  /\ UNCHANGED << resourceVars, memoryVars, memoryTypeMap, impl, pipelineLayouts,
                  deviceVars, lockVars >>

(* --------------------------- specification ---------------------------- *)

Next ==
  \/ CreateBuffer
  \/ AllocateBuffer
  \/ DestroyBuffer
  \/ CreateTexture
  \/ AllocateTexture
  \/ DestroyTexture
  \/ CreateAccelerationStructure
  \/ AllocateAccelerationStructure
  \/ DestroyAccelerationStructure
  \/ RegisterMemoryType
  \/ AllocateMemory
  \/ CreateMemoryVK
  \/ FreeMemory
  \/ BindBufferMemory
  \/ BindBufferMemory_Validate
  \/ BindBufferMemory_Forward
  \/ BindTextureMemory
  \/ BindTextureMemory_Validate
  \/ BindTextureMemory_Forward
  \/ BindAccelerationStructureMemory
  \/ BindAccelerationStructureMemory_Validate
  \/ BindAccelerationStructureMemory_Forward
  \/ AllocateAndBindMemory
  \/ Return

Spec == Init /\ [][Next]_vars

\* The handlers that validate a descriptor and create an object from it:
\* textures, pipeline layouts and pipelines.  They share no state with the
\* memory handlers above but the texture proxies.
ValidationNext ==
  \/ CreateTexture
  \/ AllocateTexture
  \/ DestroyTexture
  \/ CreatePipelineLayout
  \/ DestroyPipelineLayout
  \/ CreateGraphicsPipeline
  \/ CreateComputePipeline
  \/ CreateRayTracingPipeline
  \/ Return

ValidationSpec == Init /\ [][ValidationNext]_vars

\* The handlers that create a view of a buffer or of a texture.
DescriptorNext ==
  \/ CreateBufferView
  \/ CreateTexture1DView
  \/ CreateTexture2DView
  \/ CreateTexture3DView
  \/ Return

DescriptorSpec == Init /\ [][DescriptorNext]_vars

\* The life of the device itself, from CreateDeviceValidation on a backend
\* device to Destruct.
DeviceInit ==
  /\ ConstructedInit
  /\ deviceVal = "unallocated"
  /\ capabilities = [t \in OptionalTables |-> FALSE]

DeviceNext ==
  \/ CreateDeviceValidation
  \/ GetCommandQueue
  \/ Destruct
  \/ Return

DeviceSpec == DeviceInit /\ [][DeviceNext]_vars

\* Client threads allocating and freeing memory while a backend callback
\* thread registers memory types.
LockNext ==
  \/ AllocateMemory_Call
  \/ AllocateMemory_Lock
  \/ AllocateMemory_Find
  \/ AllocateMemory_Allocate
  \/ RegisterMemoryType_Lock
  \/ RegisterMemoryType_Store
  \/ FreeMemory
  \/ Return

LockSpec == Init /\ [][LockNext]_vars

\* Creation entry points of every family: buffers, textures, views, samplers,
\* pipeline layouts, pipelines, query pools, swap chains, memory and a wrapper
\* variant, with RegisterMemoryType for AllocateMemory to get past its lookup.
CreationNext ==
  \/ CreateBuffer
  \/ CreateTexture
  \/ CreateBufferView
  \/ CreateTexture1DView
  \/ CreateTexture2DView
  \/ CreateTexture3DView
  \/ CreateSampler
  \/ CreatePipelineLayout
  \/ CreateGraphicsPipeline
  \/ CreateComputePipeline
  \/ CreateRayTracingPipeline
  \/ CreateQueryPool
  \/ CreateSwapChain
  \/ RegisterMemoryType
  \/ AllocateMemory
  \/ CreateMemoryVK
  \/ Return

CreationSpec == Init /\ [][CreationNext]_vars

(* ----------------------------- properties ----------------------------- *)

BindOps == {"BindBufferMemory", "BindTextureMemory", "BindAccelerationStructureMemory"}
BindingOps == BindOps \cup {"AllocateAndBindMemory"}

\* The resources, the entries and the per-entry checks of a Bind*Memory handler.
ResourcesOf(op) ==
  IF op = "BindBufferMemory" THEN Buffers
  ELSE IF op = "BindTextureMemory" THEN Textures
  ELSE AccelerationStructures

EntriesOf(op) ==
  IF op = "BindBufferMemory" THEN BufferEntries
  ELSE IF op = "BindTextureMemory" THEN TextureEntries
  ELSE AccelerationStructureEntries

EntryCheck(op, e) ==
  IF op = "BindBufferMemory" THEN BufferEntryCheck(e)
  ELSE IF op = "BindTextureMemory" THEN TextureEntryCheck(e)
  ELSE AccelerationStructureEntryCheck(e)

\* The handler op is about to read the next entry of the caller's array.
Reading(op) == pc = op /\ Len(impl) < MaxBatch

\* The step is the return of a handler that called its backend bind entry point.
ForwardStep ==
  /\ pc' = "returned"
  /\ call'.forwarded
  /\ \/ pc \in BindOps /\ call'.op = pc
     \/ pc = "idle" /\ call'.op = "AllocateAndBindMemory"

\* C1: in every step that changes a bound flag, the flag of a live resource
\* goes from false to true only if the step is the return of a binding handler
\* whose backend call returned SUCCESS for a request naming the resource, and
\* a flag that is true stays true if the resource stays live.
C1_BoundOnlyBySuccessfulBind ==
  [][bound' # bound =>
       \A r \in Resources :
          /\ (live[r] /\ ~bound[r] /\ bound'[r]) =>
                (ForwardStep /\ call'.result = SUCCESS /\ r \in call'.named)
          /\ (live[r] /\ bound[r] /\ live'[r]) => bound'[r]]_vars

\* A resource created unbound carries the flag after a successful bind call.
C1_Witness ==
  \E r \in Resources :
     /\ live[r] /\ bound[r]
     /\ call.op \in BindingOps /\ call.forwarded /\ call.result = SUCCESS
     /\ r \in call.named

\* C2: every request a binding handler forwards to the backend names each
\* resource in at most one entry, and names no resource that an earlier
\* successful request has bound.
C2_BindsExactlyOnce ==
  [][ForwardStep =>
       /\ \A r \in call'.named : ~bound[r]
       /\ \A i, j \in DOMAIN impl : i # j => impl[i].res # impl[j].res]_vars

\* C3: a live resource is in the bound-set of at most one live Memory proxy.
C3_InAtMostOneBoundSet ==
  \A r \in Resources :
     live[r] => Cardinality({ m \in LiveMemories : r \in boundSet[m] }) <= 1

\* C4: a Bind*Memory call on a batch that contains a bound resource returns
\* INVALID_ARGUMENT.  The entries the handler has not read are the caller's:
\* while a resource of the handler's kind is bound and the largest batch has
\* an entry after the one being read, that later entry can name the bound
\* resource, so the handler must not end in any other way than by returning
\* INVALID_ARGUMENT or by reading on; an entry naming a bound resource is
\* itself rejected.
C4_ReboundRejected ==
  [][\A op \in BindOps :
       (Reading(op) /\ \E r \in ResourcesOf(op) : live[r] /\ bound[r]) =>
          /\ \A e \in EntriesOf(op) :
                (e.res # NULL /\ bound[e.res]) =>
                   EntryCheck(op, e) \notin {"ok", "crash"}
          /\ (Len(impl) + 1 < MaxBatch) => call'.result # CRASH]_vars

\* C5: with a memory of known location and known size S > 0, an entry passes
\* validation only if its offset is a multiple of the alignment and the
\* mathematical sum offset + requiredSize is at most S.
C5_PassesOnlyInRange ==
  \A op \in BindOps : Reading(op) =>
     \A e \in EntriesOf(op) :
        ( /\ e.res # NULL /\ e.mem # NULL
          /\ memLocation[e.mem] \in KnownLocations
          /\ memSize[e.mem] > 0
          /\ EntryCheck(op, e) = "ok" ) =>
             /\ e.offset % e.md.alignment = 0
             /\ e.offset + e.md.size <= memSize[e.mem]

\* C6: with a memory whose recorded size is 0 no entry is rejected by the size
\* check, and an entry with an unbound resource and a memory of known location
\* passes exactly when offset = 0 or the requirement is not dedicated, the
\* alignment is not 0 and the offset is a multiple of the alignment.
C6_UnknownSizeSkipsSizeCheck ==
  \A op \in BindOps : Reading(op) =>
     \A e \in EntriesOf(op) :
        (e.res # NULL /\ e.mem # NULL /\ memSize[e.mem] = 0) =>
           /\ EntryCheck(op, e) # "offset_invalid"
           /\ (~bound[e.res] /\ memLocation[e.mem] \in KnownLocations) =>
                 ( EntryCheck(op, e) = "ok" <=>
                      /\ ~e.md.mustBeDedicated \/ e.offset = 0
                      /\ e.md.alignment # 0
                      /\ e.offset % e.md.alignment = 0 )

\* An entry whose offset + requiredSize exceeds the recorded size 0 of its
\* memory has passed the validation loop.
C6_Witness ==
  /\ pc \in BindOps
  /\ \E i \in DOMAIN impl :
        /\ memSize[impl[i].mem] = 0
        /\ memLocation[impl[i].mem] \in KnownLocations

\* C7 as stated: an entry with a dedicated requirement and offset # 0 is
\* rejected with INVALID_ARGUMENT whatever the memory's location is.
C7_DedicatedOffsetRejected ==
  \A op \in BindOps : Reading(op) =>
     \A e \in EntriesOf(op) :
        (e.res # NULL /\ e.md.mustBeDedicated /\ e.offset # 0) =>
           EntryCheck(op, e) \notin {"ok", "crash"}

\* C7, amended: an entry with a dedicated requirement, offset # 0 and a memory
\* of known location is rejected with INVALID_ARGUMENT, whatever the
\* alignment, the required size and the memory's size are.
C7_DedicatedOffsetRejectedKnownLocation ==
  \A op \in BindOps : Reading(op) =>
     \A e \in EntriesOf(op) :
        ( /\ e.res # NULL /\ e.md.mustBeDedicated /\ e.offset # 0
          /\ e.mem # NULL /\ memLocation[e.mem] \in KnownLocations ) =>
             EntryCheck(op, e) \notin {"ok", "crash"}

\* A handler has returned INVALID_ARGUMENT for a dedicated requirement bound
\* at a nonzero offset, without calling the backend.
C7_Witness ==
  /\ call.op \in BindOps
  /\ call.reason = "dedicated_offset"
  /\ call.result = INVALID_ARGUMENT
  /\ ~call.forwarded

\* C8: an entry with a non-null, unbound resource and an imported memory
\* (location MAX_NUM) passes validation in all three handlers, for every offset.
C8_ImportedMemorySkipsChecks ==
  \A op \in BindOps : Reading(op) =>
     \A e \in EntriesOf(op) :
        ( /\ e.res # NULL /\ ~bound[e.res]
          /\ e.mem # NULL /\ memLocation[e.mem] = MAX_NUM ) =>
             EntryCheck(op, e) = "ok"

\* C9: inside a Bind*Memory call the backend has not been called; a step
\* that reads an entry calls no backend and changes no bound flag and no
\* bound-set, and when the entry fails the call ends with INVALID_ARGUMENT;
\* the step that calls the backend ends the call, and its request names the
\* resources of the entries read, all of which have passed.
C9_AllOrNothing ==
  [][\A op \in BindOps : pc = op =>
       /\ ~call.forwarded
       /\ ~call'.forwarded =>
             /\ bound' = bound /\ boundSet' = boundSet
             /\ pc' = op \/ call'.result \in {INVALID_ARGUMENT, CRASH}
       /\ call'.forwarded =>
             /\ pc' = "returned"
             /\ call'.named = { impl[i].res : i \in DOMAIN impl }]_vars

\* A Bind*Memory call has returned INVALID_ARGUMENT because an entry failed a
\* check, without calling the backend.
C9_Witness ==
  /\ call.op \in BindOps
  /\ call.result = INVALID_ARGUMENT
  /\ call.reason \in {"already_bound", "misaligned", "offset_invalid"}
  /\ ~call.forwarded

\* C10: when the backend bind call of a validated batch returns SUCCESS, on
\* return every entry's resource is bound and is in the bound-set of the
\* entry's memory.
C10_SuccessRecordsEveryEntry ==
  [][(pc \in BindOps /\ call'.forwarded /\ call'.result = SUCCESS) =>
        \A i \in DOMAIN impl :
           /\ bound'[impl[i].res]
           /\ impl[i].res \in boundSet'[impl[i].mem]]_vars

\* A non-empty batch has been bound: its resource is recorded by a memory.
C10_Witness ==
  /\ call.op \in BindOps /\ call.forwarded /\ call.result = SUCCESS
  /\ call.named # {}
  /\ \A r \in call.named : bound[r] /\ \E m \in LiveMemories : r \in boundSet[m]

\* C11: FreeMemory(M) calls the backend and releases the proxy of M if and only
\* if the bound-set of M is empty; a refused call leaves the proxy live and
\* changes no bound-set and no bound flag, and a call that frees M changes
\* nothing but M's proxy.
C11_FreeMemoryIffBoundSetEmpty ==
  [][(pc = "idle" /\ call'.op = "FreeMemory") =>
       \E m \in Memories :
          /\ call'.named = {m}
          /\ memLive[m]
          /\ call'.forwarded <=> boundSet[m] = {}
          /\ call'.forwarded <=> ~memLive'[m]
          /\ \A n \in Memories \ {m} : memLive'[n] = memLive[n]
          /\ boundSet' = boundSet
          /\ bound' = bound /\ live' = live]_vars

\* FreeMemory has refused to free a memory that resources are bound to.
C11_Witness ==
  /\ call.op = "FreeMemory" /\ ~call.forwarded
  /\ \E m \in call.named : memLive[m] /\ boundSet[m] # {}

\* C12: in each of the three Bind*Memory handlers, an entry whose resource
\* pointer or memory pointer is null is rejected with INVALID_ARGUMENT: its
\* checks end neither in "ok" nor in a read through the null pointer.
C12_NullEntryRejected ==
  \A op \in BindOps : Reading(op) =>
     \A e \in EntriesOf(op) :
        (e.res = NULL \/ e.mem = NULL) => EntryCheck(op, e) \notin {"ok", "crash"}

\* The stage bits of a mask as a set, and the three pipeline families.
StageSet(mask) ==
  { b \in { 2 ^ k : k \in 0..7 } : (mask \div b) % 2 = 1 }

GraphicsStages == {VERTEX_SHADER, GEOMETRY_SHADER, MESH_CONTROL_SHADER, FRAGMENT_SHADER}
ComputeStages == {COMPUTE_SHADER}
RayTracingStages == {RAYGEN_SHADER, MISS_SHADER}

FamiliesOf(mask) ==
  { family \in {GraphicsStages, ComputeStages, RayTracingStages} :
      StageSet(mask) \cap family # {} }

\* Every range of every descriptor set of a layout descriptor.
RangesOf(desc) ==
  UNION { Range(desc.descriptorSets[i]) : i \in DOMAIN desc.descriptorSets }

RangeIsValid(range, mask) ==
  /\ range.isDescriptorNumVariable => range.isArray
  /\ range.descriptorNum > 0
  /\ range.descriptorType # "MAX_NUM"
  /\ range.shaderStages # StageBitsALL => StageSet(range.shaderStages) \subseteq StageSet(mask)

\* C13: CreatePipelineLayout rejects with INVALID_ARGUMENT, without a backend
\* call, every descriptor whose stage mask has bits of two or more of the
\* families graphics, compute, ray tracing or of none of them, and forwards
\* every descriptor whose mask has bits of exactly one family and whose
\* ranges are all valid.
C13_StageFamilyExclusivity ==
  call.op = "CreatePipelineLayout" =>
     /\ Cardinality(FamiliesOf(request.shaderStages)) # 1 =>
           (call.result = INVALID_ARGUMENT /\ ~call.forwarded)
     /\ ( /\ StageSet(request.shaderStages) # {}
          /\ Cardinality(FamiliesOf(request.shaderStages)) = 1
          /\ \A range \in RangesOf(request) : RangeIsValid(range, request.shaderStages) )
        => call.forwarded

\* A layout whose mask mixes two families has been rejected for that, and its
\* ranges were all valid.
C13_Witness ==
  /\ call.op = "CreatePipelineLayout"
  /\ Cardinality(FamiliesOf(request.shaderStages)) = 2
  /\ RangesOf(request) # {}
  /\ \A range \in RangesOf(request) : RangeIsValid(range, request.shaderStages)
  /\ call.result = INVALID_ARGUMENT /\ call.reason = "more_than_one_type"

\* C14: CreatePipelineLayout rejects with INVALID_ARGUMENT every descriptor
\* with a range that is variable-length and no array, or whose visibility is
\* not ALL and not a subset of the layout's stage mask; in every layout it
\* forwards, every range with visibility other than ALL satisfies
\* visibility & layoutMask = visibility.
C14_RangesValidated ==
  call.op = "CreatePipelineLayout" =>
     /\ (\E range \in RangesOf(request) :
            \/ range.isDescriptorNumVariable /\ ~range.isArray
            \/ /\ range.shaderStages # StageBitsALL
               /\ ~(StageSet(range.shaderStages) \subseteq StageSet(request.shaderStages)))
        => (call.result = INVALID_ARGUMENT /\ ~call.forwarded)
     /\ call.forwarded =>
          \A range \in RangesOf(request) :
             range.shaderStages # StageBitsALL =>
                BitAnd(range.shaderStages, request.shaderStages) = range.shaderStages

\* A layout with a one-family mask has been rejected for a range in its
\* second descriptor set whose visibility the mask does not cover.
C14_Witness ==
  /\ call.op = "CreatePipelineLayout"
  /\ call.result = INVALID_ARGUMENT /\ call.reason = "visibility_incompatible"
  /\ Cardinality(FamiliesOf(request.shaderStages)) = 1
  /\ Len(request.descriptorSets) = 2
  /\ RangeIsValid(request.descriptorSets[1][1], request.shaderStages)

\* The shaders of the graphics pipeline descriptor of the last call, and the
\* bits of the mask of shader i.
StagesOf(shaders, i) == StageSet(shaders[i].stage)

\* C15: CreatePipeline(GraphicsPipelineDesc) on a list of N >= 1 shaders in
\* which two entries share a graphics stage bit, or an entry has no or more
\* than one graphics stage bit, returns INVALID_ARGUMENT without a backend
\* call; and the accumulator uniqueShaderStages after entries 0..i holds
\* exactly the union of their stage masks.
C15_GraphicsStageUniqueness ==
  (call.op = "CreateGraphicsPipeline" /\ ~request.shaders.null) =>
     LET shaders == request.shaders.elems
     IN /\ ( \/ \E i, j \in DOMAIN shaders :
                   i # j /\ StagesOf(shaders, i) \cap StagesOf(shaders, j) \cap GraphicsStages # {}
             \/ \E i \in DOMAIN shaders :
                   Cardinality(StagesOf(shaders, i) \cap GraphicsStages) # 1 )
           => (call.result = INVALID_ARGUMENT /\ ~call.forwarded)
        /\ \A i \in DOMAIN shaders :
              StageSet(UniqueShaderStages(shaders, i, GRAPHICS_SHADERS))
                = UNION { StagesOf(shaders, k) : k \in 1..i }

\* A list of three shaders, each with one graphics stage bit and all of them
\* enabled by the layout, has been rejected because the first and the last
\* share their stage.
C15_Witness ==
  /\ call.op = "CreateGraphicsPipeline" /\ ~request.shaders.null
  /\ call.result = INVALID_ARGUMENT /\ call.reason = "stage_invalid"
  /\ LET shaders == request.shaders.elems
     IN /\ Len(shaders) = 3
        /\ shaders[1].stage = shaders[3].stage
        /\ shaders[1].stage # shaders[2].stage
        /\ \A i \in DOMAIN shaders : Cardinality(StagesOf(shaders, i) \cap GraphicsStages) = 1

\* C16: in every graphics pipeline that CreatePipeline forwards to the
\* backend, the stage mask of every shader is a non-empty subset of the stage
\* mask recorded in its pipeline layout.
C16_ShaderStagesEnabledByLayout ==
  (call.op = "CreateGraphicsPipeline" /\ call.forwarded) =>
     \A i \in DOMAIN request.shaders.elems :
        /\ StagesOf(request.shaders.elems, i) # {}
        /\ StagesOf(request.shaders.elems, i)
             \subseteq StageSet(pipelineLayouts[request.pipelineLayout].shaderStages)

\* The entries that are exactly the vertex or exactly the mesh-control stage.
EntryPoints(shaders) ==
  { i \in DOMAIN shaders : shaders[i].stage \in {VERTEX_SHADER, MESH_CONTROL_SHADER} }

\* Every attribute of the vertex input names a declared stream and ends, as a
\* mathematical sum, within its stride.
AttributesInBounds(vertexInput) ==
  \A i \in DOMAIN vertexInput.attributes :
     LET attribute == vertexInput.attributes[i]
     IN /\ attribute.streamIndex < Len(vertexInput.streams)
        /\ attribute.offset + FormatStride(attribute.format)
             <= vertexInput.streams[attribute.streamIndex + 1]

\* The lists C17 says are accepted: exactly one vertex-or-mesh-control entry,
\* no stage bit in two entries, every stage enabled by the layout, bytecode
\* present, uncompressed color formats, vertex attributes in bounds.
AcceptableGraphicsPipeline(desc) ==
  /\ desc.pipelineLayout # NULL
  /\ ~desc.shaders.null
  /\ LET shaders == desc.shaders.elems
     IN /\ Cardinality(EntryPoints(shaders)) = 1
        /\ \A i, j \in DOMAIN shaders :
              i # j => StagesOf(shaders, i) \cap StagesOf(shaders, j) = {}
        /\ \A i \in DOMAIN shaders :
              /\ StagesOf(shaders, i) # {}
              /\ StagesOf(shaders, i)
                   \subseteq StageSet(pipelineLayouts[desc.pipelineLayout].shaderStages)
              /\ shaders[i].bytecode # NULL
              /\ shaders[i].size # 0
  /\ \A i \in DOMAIN desc.colors : desc.colors[i] \notin {"UNKNOWN", "BC1_RGBA_UNORM", "MAX_NUM"}
  /\ AttributesInBounds(desc.vertexInput)

\* C17 as stated: a shader list without an entry that is exactly the vertex
\* or the mesh-control stage is rejected with INVALID_ARGUMENT, and every
\* acceptable list (above) is forwarded to the backend.
C17_EntryPointRequired ==
  (call.op = "CreateGraphicsPipeline" /\ ~request.shaders.null) =>
     /\ EntryPoints(request.shaders.elems) = {} =>
           (call.result = INVALID_ARGUMENT /\ ~call.forwarded)
     /\ AcceptableGraphicsPipeline(request) => call.forwarded

\* C17, amended: the same, for the acceptable lists in which every entry
\* carries exactly one stage bit of the graphics family.
C17_EntryPointRequiredOneStageEach ==
  (call.op = "CreateGraphicsPipeline" /\ ~request.shaders.null) =>
     /\ EntryPoints(request.shaders.elems) = {} =>
           (call.result = INVALID_ARGUMENT /\ ~call.forwarded)
     /\ ( /\ AcceptableGraphicsPipeline(request)
          /\ \A i \in DOMAIN request.shaders.elems :
                Cardinality(StagesOf(request.shaders.elems, i) \cap GraphicsStages) = 1 )
        => call.forwarded

\* An acceptable pipeline with a vertex attribute has been forwarded.
C17_Witness ==
  /\ call.op = "CreateGraphicsPipeline" /\ call.forwarded
  /\ AcceptableGraphicsPipeline(request)
  /\ \A i \in DOMAIN request.shaders.elems :
        Cardinality(StagesOf(request.shaders.elems, i) \cap GraphicsStages) = 1
  /\ ~request.vertexInput.null /\ Len(request.vertexInput.attributes) > 0

\* C18: in every graphics pipeline with a vertex input that is forwarded to
\* the backend, every attribute names one of the declared streams and its
\* offset plus the footprint of its format, as a mathematical sum, is at most
\* the stride of that stream.
C18_AttributesWithinStride ==
  (call.op = "CreateGraphicsPipeline" /\ call.forwarded /\ ~request.vertexInput.null) =>
     AttributesInBounds(request.vertexInput)

\* No stage bit is in two entries of the library.
NoSharedStage(shaders) ==
  \A i, j \in DOMAIN shaders : i # j => StagesOf(shaders, i) \cap StagesOf(shaders, j) = {}

\* C19: CreatePipeline(RayTracingPipelineDesc) returns INVALID_ARGUMENT
\* without a backend call unless recursionDepthMax and shaderGroupDescNum are
\* nonzero, every entry of the shader library has bytecode and a nonzero
\* size and exactly one stage bit of the ray tracing family, and no two
\* entries share a stage bit.
C19_RayTracingPipelineChecked ==
  call.op = "CreateRayTracingPipeline" =>
   ( ~( /\ request.recursionDepthMax # 0
        /\ request.shaderGroupDescNum # 0
        /\ ~request.shaderLibrary.null
        /\ \A i \in DOMAIN request.shaderLibrary.elems :
              /\ request.shaderLibrary.elems[i].bytecode # NULL
              /\ request.shaderLibrary.elems[i].size # 0
              /\ Cardinality(StagesOf(request.shaderLibrary.elems, i) \cap RayTracingStages) = 1
        /\ NoSharedStage(request.shaderLibrary.elems) )
     => (call.result = INVALID_ARGUMENT /\ ~call.forwarded) )

\* A library whose entries each have one ray tracing stage, different ones,
\* has been rejected because two of them share a stage bit of another kind.
C19_Witness ==
  /\ call.op = "CreateRayTracingPipeline"
  /\ call.result = INVALID_ARGUMENT /\ call.reason = "stage_invalid"
  /\ ~request.shaderLibrary.null
  /\ LET shaders == request.shaderLibrary.elems
     IN /\ Len(shaders) >= 2
        /\ \A i \in DOMAIN shaders :
              Cardinality(StagesOf(shaders, i) \cap RayTracingStages) = 1
        /\ \A i, j \in DOMAIN shaders :
              i # j => StagesOf(shaders, i) \cap StagesOf(shaders, j) \cap RayTracingStages = {}
        /\ ~NoSharedStage(shaders)

\* Values of the uint16_t width, height and depth, up to the largest.
MipDims == {0, 1, 2, 3, 4, 5, 8, 2 ^ 16 - 1}

\* floor(log2(n)) of a uint16_t n >= 1.
FloorLog2(n) == CHOOSE k \in 0..15 : 2 ^ k <= n /\ n < 2 ^ (k + 1)

Max3(w, h, d) ==
  IF w >= h /\ w >= d THEN w ELSE IF h >= d THEN h ELSE d

\* C20: GetMaxMipNum(w, h, d) has a value for every triple of uint16_t
\* inputs, zeros included, and for w, h, d >= 1 the value is
\* floor(log2(max(w, h, d))) + 1; CreateTexture and AllocateTexture forward to
\* the backend only if 1 <= mipNum <= GetMaxMipNum(width, height, depth) and
\* width, height, depth, layerNum and sampleNum are all nonzero.
C20_MipNumBound ==
  call.op \in {"CreateTexture", "AllocateTexture"} =>
     /\ \A w, h, d \in MipDims :
           /\ GetMaxMipNum(w, h, d) \in 1..16
           /\ (w >= 1 /\ h >= 1 /\ d >= 1) =>
                 GetMaxMipNum(w, h, d) = FloorLog2(Max3(w, h, d)) + 1
     /\ call.forwarded =>
           /\ 1 <= request.mipNum
           /\ request.mipNum <= GetMaxMipNum(request.width, request.height, request.depth)
           /\ request.mipNum <= FloorLog2(Max3(request.width, request.height, request.depth)) + 1
           /\ request.width # 0 /\ request.height # 0 /\ request.depth # 0
           /\ request.layerNum # 0 /\ request.sampleNum # 0

\* A texture whose mip count is the largest its depth allows has been
\* forwarded.
C20_Witness ==
  /\ call.op \in {"CreateTexture", "AllocateTexture"} /\ call.forwarded
  /\ request.depth > request.width /\ request.depth > request.height
  /\ request.mipNum = FloorLog2(request.depth) + 1
  /\ request.mipNum > FloorLog2(request.width) + 1

\* The call that returned is a texture view creation (1D, 2D or 3D) with a
\* valid view type and format on a texture of mipNum parentMips, asking for
\* mipNum mips from mipOffset on, with a layer or slice range inside the texture.
TextureViewOps == {"CreateTexture1DView", "CreateTexture2DView", "CreateTexture3DView"}

MipViewReturned(mipOffset, mipNum, parentMips) ==
  /\ pc = "returned"
  /\ call.op \in TextureViewOps
  /\ ~request.texture.null
  /\ request.viewType # "MAX_NUM"
  /\ request.format = "RGBA8_UNORM"
  /\ request.texture.desc.mipNum = parentMips
  /\ request.mipOffset = mipOffset
  /\ request.mipNum = mipNum
  /\ IF call.op = "CreateTexture3DView"
     THEN request.sliceOffset = 0 /\ request.sliceNum = 1
     ELSE request.layerOffset = 0 /\ request.layerNum = 1

\* C21 as stated: a texture view with mipOffset = 3, mipNum = 2 on a texture
\* with 4 mips is accepted (forwarded to the backend), and one with
\* mipOffset = 3, mipNum = 3 is rejected with INVALID_ARGUMENT.
C21_TextureViewBoundsExample ==
  /\ MipViewReturned(3, 2, 4) => call.forwarded
  /\ MipViewReturned(3, 3, 4) => call.result = INVALID_ARGUMENT /\ ~call.forwarded

\* C21 amended: mipOffset = 3, mipNum = 1 on a texture with 4 mips is accepted
\* (3 + 1 <= 4); mipNum = 2 and mipNum = 3 from mipOffset = 3 are rejected
\* with INVALID_ARGUMENT (3 + 2 > 4, 3 + 3 > 4).
C21_TextureViewBoundsLastMip ==
  /\ MipViewReturned(3, 1, 4) => call.forwarded
  /\ MipViewReturned(3, 2, 4) => call.result = INVALID_ARGUMENT /\ ~call.forwarded
  /\ MipViewReturned(3, 3, 4) => call.result = INVALID_ARGUMENT /\ ~call.forwarded

\* A 3D view of the last mip of a four-mip texture was created.
C21_Witness ==
  /\ MipViewReturned(3, 1, 4)
  /\ call.op = "CreateTexture3DView"
  /\ call.result = SUCCESS

\* C28: every view that CreateDescriptor forwards to the backend lies inside
\* the recorded extent of its parent, the sums taken as mathematical sums: a
\* buffer view has offset < size of the buffer and offset + size <= size of
\* the buffer; a 1D or 2D texture view has mipOffset + mipNum <= mipNum of the
\* texture and layerOffset + layerNum <= layerNum of the texture; a 3D view has
\* mipOffset + mipNum <= mipNum and sliceOffset + sliceNum <= depth.
C28_ForwardedViewsInsideParent ==
  (pc = "returned" /\ call.forwarded) =>
     /\ call.op = "CreateBufferView" =>
          /\ request.offset < request.buffer.desc.size
          /\ request.offset + request.size <= request.buffer.desc.size
     /\ call.op \in {"CreateTexture1DView", "CreateTexture2DView"} =>
          /\ request.mipOffset + request.mipNum <= request.texture.desc.mipNum
          /\ request.layerOffset + request.layerNum <= request.texture.desc.layerNum
     /\ call.op = "CreateTexture3DView" =>
          /\ request.mipOffset + request.mipNum <= request.texture.desc.mipNum
          /\ request.sliceOffset + request.sliceNum <= request.texture.desc.depth

\* C22: CreateDeviceValidation returns a device if and only if the core,
\* helper, streamer and resource-allocator tables are all filled successfully;
\* then each of the seven capability flags equals the success of its own
\* table query, whatever the other queries returned; otherwise the half-built
\* DeviceVal is destroyed and null is returned.
C22_MandatoryTablesOrNoDevice ==
  (pc = "returned" /\ call.op = "CreateDeviceValidation") =>
     LET fill == request.tables
         mandatory == \A i \in DOMAIN MandatoryTables : fill[MandatoryTables[i]] = SUCCESS
     IN /\ (call.result # NULL) <=> mandatory
        /\ mandatory =>
             /\ deviceVal = "created"
             /\ handle = {"DeviceVal"}
             /\ \A t \in OptionalTables : capabilities[t] <=> (fill[t] = SUCCESS)
        /\ ~mandatory =>
             /\ deviceVal = "destroyed"
             /\ handle = Unwritten

\* A device was created on a backend without ray tracing and with swap chains.
C22_Witness ==
  /\ pc = "returned" /\ call.op = "CreateDeviceValidation"
  /\ deviceVal = "created"
  /\ request.tables["RayTracing"] = FAILURE /\ ~capabilities["RayTracing"]
  /\ request.tables["SwapChain"] = SUCCESS /\ capabilities["SwapChain"]

\* C23: the device holds at most one command-queue proxy per queue type; a
\* successful GetCommandQueue allocates the proxy when the type has none and
\* otherwise returns the cached proxy without allocating; a call with a type
\* of MAX_NUM or a failing backend call leaves the cache unchanged; the
\* destruction of the device destroys every cached proxy exactly once.
C23_CommandQueueCache ==
  [][ /\ \A t \in CommandQueueTypes :
            /\ queueVals'[t].allocated <= 1
            /\ (commandQueues'[t] # NullQueue) <=> (queueVals'[t].allocated = 1)
      /\ (pc = "idle" /\ call'.op = "GetCommandQueue") =>
            IF call'.result = SUCCESS
            THEN LET t == request'.commandQueueType
                 IN /\ handle' = { QueueVal(t, commandQueues'[t]) }
                    /\ commandQueues'[t] # NullQueue
                    /\ commandQueues[t] # NullQueue =>
                         /\ commandQueues' = commandQueues
                         /\ queueVals' = queueVals
                    /\ commandQueues[t] = NullQueue =>
                         /\ queueVals'[t].allocated = queueVals[t].allocated + 1
                         /\ \A u \in CommandQueueTypes \ {t} :
                               /\ commandQueues'[u] = commandQueues[u]
                               /\ queueVals'[u] = queueVals[u]
            ELSE /\ commandQueues' = commandQueues
                 /\ queueVals' = queueVals
                 /\ handle' = Unwritten
      /\ deviceVal' = "destroyed" =>
            \A t \in CommandQueueTypes : queueVals'[t].destroyed = queueVals'[t].allocated
    ]_vars

\* The device was destroyed with one proxy of each queue type in its cache,
\* each of them allocated once and destroyed once.
C23_Witness ==
  /\ deviceVal = "destroyed"
  /\ \A t \in CommandQueueTypes : queueVals[t] = [allocated |-> 1, destroyed |-> 1]


\* C24: an AllocateMemory (with a size and a priority that pass) whose memory
\* type has no entry in the map returns FAILURE without calling the backend
\* and without creating a proxy; with an entry and a successful backend call
\* it returns a new proxy that records the requested size and the location
\* registered last for the type.
C24_AllocateMemoryRecordsRegisteredLocation ==
  [][ (pc = "AllocateMemory_found" /\ pc' # "AllocateMemory_found") =>
        IF alloc.it = "end"
        THEN /\ call'.result = FAILURE
             /\ ~call'.forwarded
             /\ handle' = Unwritten
             /\ UNCHANGED memoryVars
        ELSE /\ pc' = "returned"
             /\ call'.result = SUCCESS =>
                  \E m \in FreeMemories :
                     /\ handle' = {m}
                     /\ memLive'[m]
                     /\ memSize'[m] = alloc.size
                     /\ memLocation'[m] = memoryTypeMap[alloc.type]
    ]_vars

\* C25: every access to m_MemoryTypeMap or to one of its entries is made
\* with m_Lock held, and AllocateMemory reads no entry through an iterator
\* that a RegisterMemoryType has made stale.
C25_MapAccessesHoldLock ==
  /\ access.locked
  /\ ~access.stale

\* The creation entry points of CreationSpec.
CreationOps ==
  { "CreateBuffer", "CreateTexture", "CreateBufferView", "CreateTexture1DView",
    "CreateTexture2DView", "CreateTexture3DView", "CreateSampler",
    "CreatePipelineLayout", "CreateGraphicsPipeline", "CreateComputePipeline",
    "CreateRayTracingPipeline", "CreateQueryPool", "CreateSwapChain",
    "AllocateMemory", "CreateMemoryVK" }

\* C26: a creation call that is rejected returns INVALID_ARGUMENT when an
\* argument check failed (FAILURE when the memory type has no entry), has not
\* called the backend, has not written the caller's output handle, and has
\* left every proxy and all other state of the layer as it was.
C26_RejectedCreationHasNoEffect ==
  [][ (pc = "idle" /\ pc' = "returned" /\ call'.op \in CreationOps /\ call'.reason # "ok") =>
        /\ call'.result = IF call'.reason = "memoryType_invalid"
                          THEN FAILURE ELSE INVALID_ARGUMENT
        /\ ~call'.forwarded
        /\ handle' = Unwritten
        /\ UNCHANGED << resourceVars, memoryVars, memoryTypeMap, pipelineLayouts,
                        deviceVars, lockVars >>
    ]_vars

\* A query pool without capacity was rejected while a buffer, a texture and a
\* memory were live.
C26_Witness ==
  /\ pc = "returned"
  /\ call.op = "CreateQueryPool"
  /\ call.reason = "capacity_zero"
  /\ call.result = INVALID_ARGUMENT
  /\ handle = Unwritten
  /\ LiveOf(Buffers) # {}
  /\ LiveOf(Textures) # {}
  /\ LiveMemories # {}

C29_FailedBackendBindChangesNothing ==
  [][ (pc \in BindOps /\ pc' = "returned" /\ call'.forwarded /\ call'.result # SUCCESS) =>
        /\ call'.result \in BackendResults
        /\ call'.reason = "ok"
        /\ bound' = bound
        /\ boundSet' = boundSet
        /\ UNCHANGED << live, memoryDesc, memLive, memSize, memLocation >>
    ]_vars

\* A validated batch naming a buffer came back from the backend with FAILURE,
\* and the buffer is unbound and in no bound-set.
C29_Witness ==
  /\ pc = "returned"
  /\ call.op = "BindBufferMemory"
  /\ call.forwarded
  /\ call.result = FAILURE
  /\ call.named # {}
  /\ \A r \in call.named : live[r] /\ ~bound[r] /\ \A m \in Memories : r \notin boundSet[m]

\* C30: a step that sets the bound flag of a live resource (a Bind*Memory
\* handler or AllocateAndBindMemory; a resource created bound has the flag
\* from its construction) leaves the resource in the bound-set of a live
\* Memory proxy, and the resource stays in that bound-set, and the memory
\* live, for as long as the resource is live: FreeMemory on the memory is
\* refused until then.
C30_BoundResourcesAreInABoundSet ==
  [][ \A r \in Resources :
        /\ (live[r] /\ ~bound[r] /\ live'[r] /\ bound'[r]) =>
              \E m \in Memories : memLive'[m] /\ r \in boundSet'[m]
        /\ \A m \in Memories :
              (live[r] /\ bound[r] /\ live'[r] /\ memLive[m] /\ r \in boundSet[m]) =>
                 (memLive'[m] /\ r \in boundSet'[m])
    ]_vars

====
